---- MODULE Spec2Model ----
(***************************************************************************)
(* Model of github.com/danlock/pkg/errors: structured errors carrying      *)
(* slog attributes, the context carrier, Join/JoinAfter and the chain      *)
(* aggregator UnwrapAttr.                                                  *)
(*                                                                         *)
(* Error values are records tagged by t:                                   *)
(*   "nil"   the nil error interface                                       *)
(*   "plain" a leaf error without Unwrap (errors.New, fmt.Errorf w/o %w)   *)
(*   "fmt"   *fmt.wrapError: a message and Unwrap() error                  *)
(*   "attr"  attrError/metaError: embedded error + own attributes          *)
(*   "join"  *errors.joinError: Unwrap() []error                           *)
(* Strings that the code concatenates are sequences of tokens.             *)
(***************************************************************************)
EXTENDS Integers, Sequences, FiniteSets, TLC

VARIABLES
    err,    \* the caller's named return error variable (*errPtr)
    held,   \* a second error value kept by the caller (an earlier result)
    ctx,    \* the caller's context.Context, as far as ctxKey{} is concerned
    last,   \* the last call made: operation and arguments
    ja,     \* the JoinAfter call in progress, if any
    limit,  \* structured nodes the explored error values may hold
    out,    \* how the last call ended where that is not the slot: a panic,
            \* or the value a query (Get, Into, LogValue, Format) returned
    heap,   \* backing arrays of the []slog.Attr slices that goroutines share
    gs,     \* goroutines deriving contexts from one parent context
    rt      \* the retry loop (package retry) in progress, if any

vars == <<err, held, ctx, last, ja, limit, out, heap, gs, rt>>

----------------------------------------------------------------------------
(* Bounds of the model *)

\* structured (attrError) nodes an error value may hold in Spec and in
\* SpecJoinAfter before JoinAfter runs
MaxNodes == 2
\* structured nodes the caller's two error values may hold together in
\* SpecJoin
MaxJoinNodes == 3
\* attributes stored in a context
MaxCtxAttrs == 1
\* cleanup functions passed to JoinAfter
MaxFuncs == 2

----------------------------------------------------------------------------
(* Configuration: options.go *)

DefaultSourceSlogKey == "source"
DefaultMsgSlogKey == "msg"
DefaultPackagePrefix == "github.com"

\* caller is the number of stack frames to skip when determining the caller
caller == 4

----------------------------------------------------------------------------
(* Inputs *)

Nil == [t |-> "nil"]

\* slog.Value: a string (a sequence of tokens) or a group of attributes
String(v) == [kind |-> "String", v |-> v]
Group(as) == [kind |-> "Group", v |-> as]
\* slog.Attr
Attr(k, v) == [key |-> k, value |-> v]
a1 == Attr("a", String(<<"1">>))
a2 == Attr("a", String(<<"2">>))
b1 == Attr("b", String(<<"1">>))
\* slog.Group("g"): an attribute whose value is a group without members
g0 == Attr("g", Group(<<>>))
\* an attribute of the application that uses the source key
s1 == Attr(DefaultSourceSlogKey, String(<<"1">>))

\* explicit attribute lists passed to the wrapping functions
AttrLists == {<<>>, <<s1>>, <<b1, a2>>, <<g0, a1, a2>>}
\* attribute lists passed to AddMetaToCtx
CtxAttrLists == {<<>>, <<a1>>, <<s1>>}

SeqsUpTo(S, n) == UNION {[1..m -> S] : m \in 0..n}

\* a stack frame: runtime.Frame's Function, File and Line
Frame(fn, file, line) == [function |-> fn, file |-> file, line |-> line]
NoFrame == Frame(<<>>, <<>>, "0")

\* call sites in the application calling this package
Sites == {
    Frame(<<"github.com", "app", "svc.Load">>, <<"home", "go", "github.com", "app", "svc.go">>, "10"),
    Frame(<<"github.com", "app", "svc.Save">>, <<"home", "go", "github.com", "app", "svc.go">>, "20")}

\* frames of this package's own functions
PkgFile == <<"home", "go", "github.com", "danlock", "pkg", "errors", "ctx.go">>
PkgFrame(name, line) == Frame(<<"github.com", "danlock", "pkg", name>>, PkgFile, line)
ErrFile == <<"home", "go", "github.com", "danlock", "pkg", "errors", "error.go">>
ErrFrame(name, line) == Frame(<<"github.com", "danlock", "pkg", name>>, ErrFile, line)
RuntimeFrame(name) == Frame(<<"runtime." \o name>>, <<"runtime", "extern.go">>, "1")

\* leaf errors from outside the package
Plain(m) == [t |-> "plain", msg |-> m]
BaseErrs == {Plain(<<"EOF">>)}

----------------------------------------------------------------------------
(* The standard library's error chain operations, as this package uses them *)

\* err.Error()
RECURSIVE Error(_)
RECURSIVE JoinMsgs(_, _)
JoinMsgs(errs, i) ==
    IF i > Len(errs) THEN <<>>
    ELSE IF i = 1 THEN Error(errs[i]) \o JoinMsgs(errs, i + 1)
    ELSE <<"\n">> \o Error(errs[i]) \o JoinMsgs(errs, i + 1)
Error(e) ==
    CASE e.t = "plain" -> e.msg
      [] e.t = "fmt"   -> e.msg
      [] e.t = "attr"  -> Error(e.error)
      [] e.t = "join"  -> JoinMsgs(e.errs, 1)

\* errors.Unwrap: only an Unwrap() error method counts
Unwrap(e) ==
    CASE e.t = "fmt"  -> e.error
      [] e.t = "attr" -> e.error
      [] OTHER        -> Nil

\* errors.As for a target type named by its tag: the package itself asks for
\* "attr" (attrError / the AttrError interface) and for
\* "join" (interface{ Unwrap() []error }); a caller may ask for the type of
\* any error value ("plain", "fmt"). Depth-first, pre-order.
RECURSIVE As(_, _)
RECURSIVE AsAny(_, _, _)
RECURSIVE AsAny_LastFirst(_, _, _)
\* variant that tries the members of a join from the last to the first
AsAny_LastFirst(errs, i, target) ==
    IF i > Len(errs) THEN Nil
    ELSE LET later == AsAny_LastFirst(errs, i + 1, target)
         IN IF later # Nil THEN later ELSE As(errs[i], target)
AsAny(errs, i, target) ==
    IF i > Len(errs) THEN Nil
    ELSE LET found == As(errs[i], target)
         IN IF found # Nil THEN found ELSE AsAny(errs, i + 1, target)
As(e, target) ==
    CASE e.t = "nil"   -> Nil
      [] e.t = target  -> e
      [] e.t = "plain" -> Nil
      [] e.t = "fmt"   -> As(e.error, target)
      [] e.t = "attr"  -> As(e.error, target)
      [] e.t = "join"  -> AsAny(e.errs, 1, target)

\* Into[T](err): the value found and whether one was found
Into(e, target) == [val |-> As(e, target), ok |-> As(e, target) # Nil]

\* errors.Join: nil members are discarded, nil if none is left
NonNil(errs) == SelectSeq(errs, LAMBDA e : e # Nil)
StdJoin(errs) ==
    IF NonNil(errs) = <<>> THEN Nil ELSE [t |-> "join", errs |-> NonNil(errs)]

\* fmt.Errorf(format, err) with at most one %w verb in format, no other verbs
RECURSIVE Expand(_, _)
Expand(format, e) ==
    IF format = <<>> THEN <<>>
    ELSE (IF Head(format) = "%w" THEN Error(e) ELSE <<Head(format)>>)
         \o Expand(Tail(format), e)
Errorf(format, e) ==
    IF \E i \in 1..Len(format) : format[i] = "%w"
    THEN [t |-> "fmt", msg |-> Expand(format, e), error |-> e]
    ELSE Plain(format)

\* slog.Record.AddAttrs keeps the attributes in the order given and omits
\* the ones whose value is an empty group
isEmptyGroup(v) == v.kind = "Group" /\ Len(v.v) = 0
AddAttrs(attrs) == SelectSeq(attrs, LAMBDA a : ~isEmptyGroup(a.value))

\* attrError{error: e} holding the given own attributes
AttrError(e, attrs) == [t |-> "attr", error |-> e, attrs |-> attrs]

----------------------------------------------------------------------------
(* Frame resolver *)

\* strings.Cut(s, sep) on token sequences: the part after the first sep
RECURSIVE CutAfter(_, _)
CutAfter(s, sep) ==
    IF s = <<>> THEN <<>>
    ELSE IF Head(s) = sep THEN Tail(s) ELSE CutAfter(Tail(s), sep)

\* runtime.Callers(skip, pcs[:1]): skip 0 is Callers itself, 1 its caller...
\* stack[1] is the frame of runtime.Callers.
callerFunc(skip, stack) ==
    IF skip + 1 > Len(stack) THEN NoFrame
    ELSE LET frame == stack[skip + 1]
             after == CutAfter(frame.file, DefaultPackagePrefix)
         IN IF DefaultPackagePrefix = "" THEN frame
            ELSE IF Len(after) > 0
                 THEN [frame EXCEPT !.file = <<DefaultPackagePrefix>> \o after]
                 ELSE frame

\* variant of prependCaller that leaves the text as it is
prependCaller_Unchanged(text, f) == text

\* path.Split(f.Function): the last path element
prependCaller(text, f) ==
    IF f.function = <<>> THEN text
    ELSE <<f.function[Len(f.function)]>> \o text

\* fmt.Sprintf("%s:%d", frame.File, frame.Line)
SourceValue(frame) == frame.file \o <<":", frame.line>>

\* variant of appendFileToAttr without the check for a structured node
appendFileToAttr_Always(meta, e, skip, frame, stack) ==
    IF DefaultSourceSlogKey = "" THEN meta
    ELSE LET fr == IF skip > 0 THEN callerFunc(skip, stack) ELSE frame
         IN Append(meta, Attr(DefaultSourceSlogKey, String(SourceValue(fr))))

\* appendFileToAttr(meta, err, skip, frame); stack is the call stack at the
\* point where callerFunc would run from here
appendFileToAttr(meta, e, skip, frame, stack) ==
    IF DefaultSourceSlogKey = "" THEN meta
    ELSE IF Into(e, "attr").ok THEN meta
    ELSE LET fr == IF skip > 0 THEN callerFunc(skip, stack) ELSE frame
         IN Append(meta, Attr(DefaultSourceSlogKey, String(SourceValue(fr))))

----------------------------------------------------------------------------
(* Chain aggregator *)

EmptyKV == [k \in {} |-> String(<<>>)]
\* variant of the map store that keeps the value a key already has
Put_IfAbsent(kv, k, v) ==
    [x \in (DOMAIN kv) \cup {k} |-> IF x \in DOMAIN kv THEN kv[x] ELSE v]
\* meta[k] = v
Put(kv, k, v) == [x \in (DOMAIN kv) \cup {k} |-> IF x = k THEN v ELSE kv[x]]

\* for attr := range merr.Attrs() { meta[attr.Key] = attr.Value }
RECURSIVE PutAttrs(_, _)
PutAttrs(kv, attrs) ==
    IF attrs = <<>> THEN kv
    ELSE PutAttrs(Put(kv, Head(attrs).key, Head(attrs).value), Tail(attrs))

RECURSIVE updateAttrMapFromErr(_, _)
RECURSIVE UpdateFromChildren(_, _, _)
RECURSIVE UpdateFromChain(_, _)
\* for _, e := range jerr.Unwrap() { updateAttrMapFromErr(e, meta) }
UpdateFromChildren(errs, i, kv) ==
    IF i > Len(errs) THEN kv
    ELSE UpdateFromChildren(errs, i + 1, updateAttrMapFromErr(errs[i], kv))
\* for errors.As(err, &merr) { ...; err = errors.Unwrap(merr) }
UpdateFromChain(e, kv) ==
    LET merr == As(e, "attr")
    IN IF merr = Nil THEN kv
       ELSE UpdateFromChain(Unwrap(merr), PutAttrs(kv, merr.attrs))
\* variant of updateAttrMapFromErr without the recursion into joined errors
\* (errors.As alone, as appendMetaFromErr in meta.go)
updateAttrMapFromErr_NoChildren(e, kv) == UpdateFromChain(e, kv)
\* variant of updateAttrMapFromErr that walks the chain before the children
updateAttrMapFromErr_ChainFirst(e, kv) ==
    LET jerr == Into(e, "join")
        kv1  == UpdateFromChain(e, kv)
    IN IF jerr.ok THEN UpdateFromChildren(jerr.val.errs, 1, kv1) ELSE kv1
updateAttrMapFromErr(e, kv) ==
    LET jerr == Into(e, "join")
        kv1  == IF jerr.ok THEN UpdateFromChildren(jerr.val.errs, 1, kv) ELSE kv
    IN UpdateFromChain(e, kv1)

\* UnwrapAttr: a fresh, non-nil map
UnwrapAttr(e) == [isNil |-> FALSE, kv |-> updateAttrMapFromErr(e, EmptyKV)]

----------------------------------------------------------------------------
(* Wrapping API: error.go (attrError variant) *)

\* the call stack seen by runtime.Callers when an exported function called
\* from site reaches callerFunc through one intermediate function
Stack(inner, entry, site) ==
    <<RuntimeFrame("Callers"), ErrFrame("errors.callerFunc", "257"),
      inner, entry, site, RuntimeFrame("main")>>

\* ErrorfWithSkip(skip, format): format holds no verbs here
ErrorfWithSkip(skip, format, stack) ==
    LET frame == callerFunc(skip, stack)
    IN AttrError(Errorf(prependCaller(format, frame), Nil),
                 AddAttrs(appendFileToAttr(<<>>, Nil, 0, frame, stack)))

New(text, site) ==
    ErrorfWithSkip(caller, text,
        Stack(ErrFrame("errors.ErrorfWithSkip", "86"), ErrFrame("errors.New", "77"), site))

WrapfWithSkip(e, skip, format, stack) ==
    IF e = Nil THEN Nil
    ELSE LET fmt   == IF format = <<>> THEN <<"%w">> ELSE format \o <<"%w">>
             frame == callerFunc(skip, stack)
         IN AttrError(Errorf(prependCaller(fmt, frame), e),
                      AddAttrs(appendFileToAttr(<<>>, e, 0, frame, stack)))

Wrap(e, site) ==
    WrapfWithSkip(e, caller, <<>>,
        Stack(ErrFrame("errors.WrapfWithSkip", "130"), ErrFrame("errors.Wrap", "106"), site))

Wrapf(e, format, site) ==
    WrapfWithSkip(e, caller, format,
        Stack(ErrFrame("errors.WrapfWithSkip", "130"), ErrFrame("errors.Wrapf", "112"), site))

\* variant that wraps whatever the stdlib join returns, nil included
Join_AlwaysWraps(errs) == AttrError(StdJoin(errs), <<>>)
\* Join wraps the stdlib join so that slog.LogValuer can be called
Join(errs) ==
    IF StdJoin(errs) # Nil THEN AttrError(StdJoin(errs), <<>>) ELSE Nil

----------------------------------------------------------------------------
(* Context carrier and attribute wrapping: ctx.go *)

\* a context.Context as far as this package can tell: nil or not, and the
\* []slog.Attr stored under ctxKey{}, if any
NilCtx == [isNil |-> TRUE, has |-> FALSE, attrs |-> <<>>]
Background == [isNil |-> FALSE, has |-> FALSE, attrs |-> <<>>]

\* variant of appendMetaFromCtx that puts the context's attributes first
appendMetaFromCtx_Prepend(c, meta) ==
    IF c.isNil THEN meta
    ELSE IF ~c.has THEN meta
    ELSE c.attrs \o meta

appendMetaFromCtx(c, meta) ==
    IF c.isNil THEN meta
    ELSE IF ~c.has THEN meta
    ELSE meta \o c.attrs

\* variant of maybeWrapMetaError whose node has a message of its own
maybeWrapMetaError_Annotated(e, meta) ==
    AttrError(Errorf(<<"meta", "%w">>, e), AddAttrs(meta))

\* variant of maybeWrapMetaError that always allocates a node
maybeWrapMetaError_Always(e, meta) == AttrError(e, AddAttrs(meta))

maybeWrapMetaError(e, meta) ==
    LET isMeta == e.t = "attr"
    IN IF Len(meta) = 0 /\ isMeta THEN e ELSE AttrError(e, AddAttrs(meta))

\* variant of AddMetaToCtx that lists the parent's attributes first
AddMetaToCtx_ParentFirst(c, meta) ==
    IF c.isNil THEN NilCtx
    ELSE [isNil |-> FALSE, has |-> TRUE, attrs |-> c.attrs \o meta]

AddMetaToCtx(c, meta) ==
    IF c.isNil THEN NilCtx
    ELSE [isNil |-> FALSE, has |-> TRUE, attrs |-> appendMetaFromCtx(c, meta)]

\* the stack when appendFileToMeta, called from an exported function of
\* ctx.go at the given line, reaches callerFunc
CtxStack(name, line, site) ==
    Stack(ErrFrame("errors.appendFileToAttr", "299"), PkgFrame(name, line), site)

WrapMeta(e, meta, site) ==
    IF e = Nil THEN Nil
    ELSE maybeWrapMetaError(e,
            appendFileToAttr(meta, e, caller - 1, NoFrame,
                             CtxStack("errors.WrapMeta", "16", site)))

\* variant of WrapMetaCtx without the nil check
WrapMetaCtx_NoNilCheck(c, e, meta, site) ==
    maybeWrapMetaError(e,
        appendMetaFromCtx(c,
            appendFileToAttr(meta, e, caller - 1, NoFrame,
                             CtxStack("errors.WrapMetaCtx", "76", site))))

WrapMetaCtx(c, e, meta, site) ==
    IF e = Nil THEN Nil
    ELSE maybeWrapMetaError(e,
            appendMetaFromCtx(c,
                appendFileToAttr(meta, e, caller - 1, NoFrame,
                                 CtxStack("errors.WrapMetaCtx", "76", site))))

\* variant of WrapMetaCtxAfter that leaves the context's attributes out
WrapMetaCtxAfter_NoCtx(c, slot, meta, site) ==
    IF slot = Nil THEN slot
    ELSE maybeWrapMetaError(slot,
            appendFileToAttr(meta, slot, caller - 1, NoFrame,
                             CtxStack("errors.WrapMetaCtxAfter", "116", site)))

\* WrapMetaCtxAfter(ctx, errPtr, meta...) with errPtr # nil: the new *errPtr
WrapMetaCtxAfter(c, slot, meta, site) ==
    IF slot = Nil THEN slot
    ELSE maybeWrapMetaError(slot,
            appendMetaFromCtx(c,
                appendFileToAttr(meta, slot, caller - 1, NoFrame,
                                 CtxStack("errors.WrapMetaCtxAfter", "116", site))))

----------------------------------------------------------------------------
(* Calls with errPtr == nil *)

\* a nil *error
NilPtr == [t |-> "nilptr"]
\* a call that ended in a panic with the given value, after having called
\* the cleanup functions at the given positions
Panic(msg, calls) == [kind |-> "panic", msg |-> msg, calls |-> calls]
MustPoint == "errPtr must point at the caller function's named return error variable"

\* WrapMetaCtxAfter(ctx, nil, meta...)
WrapMetaCtxAfterNil(c, meta) == Panic(<<"WrapMetaCtxAfter", MustPoint>>, <<>>)

\* variant of JoinAfter that tests errPtr after the loop: the cleanup
\* functions run, then the call panics
JoinAfterNil_CheckLast(errFuncs) ==
    Panic(<<"JoinAfter", MustPoint>>,
          SelectSeq([i \in 1..Len(errFuncs) |-> i], LAMBDA i : ~errFuncs[i].isNil))
\* variant of JoinAfter without the test of errPtr: the cleanup functions
\* run, then *errPtr faults
JoinAfterNil_Deref(errFuncs) ==
    Panic(<<"runtime error: invalid memory address or nil pointer dereference">>,
          SelectSeq([i \in 1..Len(errFuncs) |-> i], LAMBDA i : ~errFuncs[i].isNil))
\* JoinAfter(nil, errFuncs...)
JoinAfterNil(errFuncs) == Panic(<<"JoinAfter", MustPoint>>, <<>>)

----------------------------------------------------------------------------
(* Get[T]: typed lookup in the flattened map *)

\* a Go value as an interface holds it: its dynamic type and its content as
\* tokens; the nil interface has no dynamic type
GoVal(type, v) == [type |-> type, v |-> v]
GoNil == GoVal("nil", <<>>)
\* slog.Int64Value and slog.AnyValue of a value slog has no kind for
Int64(v) == [kind |-> "Int64", v |-> v]
AnyValue(x) == [kind |-> "Any", v |-> x]
\* slog.Value.Any()
ValueAny(value) ==
    CASE value.kind = "String" -> GoVal("string", value.v)
      [] value.kind = "Int64"  -> GoVal("int64", value.v)
      [] value.kind = "Group"  -> GoVal("[]slog.Attr", value.v)
      [] value.kind = "Any"    -> value.v

\* the type arguments tried for T; the last two are interface types
Types == {"string", "int64", "any", "error"}
IsInterface(T) == T \in {"any", "error"}
Implements(type, T) == T = "any" \/ (T = "error" /\ type = "*errors.errorString")
\* var val T
Zero(T) ==
    CASE T = "string" -> GoVal("string", <<>>)
      [] T = "int64"  -> GoVal("int64", <<"0">>)
      [] OTHER        -> GoNil
\* val, ok = x.(T)
TypeAssert(x, T) ==
    LET ok == /\ x.type # "nil"
              /\ IF IsInterface(T) THEN Implements(x.type, T) ELSE x.type = T
    IN [val |-> IF ok THEN x ELSE Zero(T), ok |-> ok]

\* a nil map[string]slog.Value
NilMap == [isNil |-> TRUE, kv |-> EmptyKV]
\* a call that returned (val, err)
Return(val, e) == [kind |-> "return", val |-> val, err |-> e]
\* %T of the zero value of T
TypeName(T) == IF IsInterface(T) THEN "<nil>" ELSE T

\* variant of Get with the single-value type assertion val = x.(T)
Get_MustAssert(meta, key, T) ==
    IF meta.isNil THEN Return(Zero(T), Plain(<<"errors.Get called with nil meta">>))
    ELSE IF key \notin DOMAIN meta.kv
    THEN Return(Zero(T), Errorf(<<"errors.Get key", key, "not found">>, Nil))
    ELSE LET a == TypeAssert(ValueAny(meta.kv[key]), T)
         IN IF ~a.ok THEN Panic(<<"interface conversion">>, <<>>)
            ELSE Return(a.val, Nil)

Get(meta, key, T) ==
    IF meta.isNil THEN Return(Zero(T), Plain(<<"errors.Get called with nil meta">>))
    ELSE IF key \notin DOMAIN meta.kv
    THEN Return(Zero(T), Errorf(<<"errors.Get key", key, "not found">>, Nil))
    ELSE LET sVal == meta.kv[key]
             a == TypeAssert(ValueAny(sVal), T)
         IN IF ~a.ok
            THEN Return(a.val, Errorf(<<"errors.Get key", key, "had kind", sVal.kind,
                                        "and not type", TypeName(T)>>, Nil))
            ELSE Return(a.val, Nil)

----------------------------------------------------------------------------
(* LogValue and Format: attr.go *)

\* AttrCompareSortFunc: nil, or the function the documentation suggests,
\* cmp.Compare(a.Key, b.Key)
NilSortFunc == "nil"
CompareKeys == "cmp.Compare(a.Key, b.Key)"
SortFuncs == {NilSortFunc, CompareKeys}
\* the keys in use, in the order of Go's string comparison
KeyOrder == <<"a", "b", "e", "g", "msg", "n", "source", "z">>
KeyRank(k) == CHOOSE i \in DOMAIN KeyOrder : KeyOrder[i] = k
\* cmp.Compare(a.Key, b.Key) < 0
Less(a, b) == KeyRank(a.key) < KeyRank(b.key)

\* slices.SortFunc by insertion; the keys sorted are pairwise different
RECURSIVE InsertSorted(_, _)
InsertSorted(a, sorted) ==
    IF sorted = <<>> THEN <<a>>
    ELSE IF Less(a, Head(sorted)) THEN <<a>> \o sorted
    ELSE <<Head(sorted)>> \o InsertSorted(a, Tail(sorted))
RECURSIVE SortFunc(_)
SortFunc(attrs) ==
    IF attrs = <<>> THEN <<>> ELSE InsertSorted(Head(attrs), SortFunc(Tail(attrs)))

\* the orders in which "for k, v := range metaMap" may visit the keys
RECURSIVE VisitOrders(_)
VisitOrders(keys) ==
    IF keys = {} THEN {<<>>}
    ELSE UNION {{<<k>> \o o : o \in VisitOrders(keys \ {k})} : k \in keys}
Orders(kv) == VisitOrders(DOMAIN kv)
\* the zero slog.Value, which a map read of an absent key returns
ZeroValue == AnyValue(GoNil)
\* slog.GroupValue: attributes whose value is an empty group are removed
GroupValue(attrs) == Group(SelectSeq(attrs, LAMBDA a : ~isEmptyGroup(a.value)))

\* the attribute list after the range loop of LogValue
Ranged(e, order) ==
    LET metaMap == UnwrapAttr(e).kv
        visited == SelectSeq(order, LAMBDA k : k # DefaultSourceSlogKey)
    IN (IF DefaultMsgSlogKey # ""
        THEN <<Attr(DefaultMsgSlogKey, String(Error(e)))>> ELSE <<>>)
       \o [i \in 1..Len(visited) |-> Attr(visited[i], metaMap[visited[i]])]
\* the list with the source attribute appended
WithSource(e, meta) ==
    LET metaMap == UnwrapAttr(e).kv
    IN IF DefaultSourceSlogKey # ""
       THEN Append(meta, Attr(DefaultSourceSlogKey,
                              IF DefaultSourceSlogKey \in DOMAIN metaMap
                              THEN metaMap[DefaultSourceSlogKey] ELSE ZeroValue))
       ELSE meta

\* variant of LogValue that never sorts
LogValue_Unsorted(e, order, sortFunc) ==
    Return(GroupValue(WithSource(e, Ranged(e, order))), Nil)

\* variant of LogValue that sorts the whole list, the message included
LogValue_SortAll(e, order, sortFunc) ==
    LET meta == Ranged(e, order)
    IN Return(GroupValue(WithSource(e,
                  IF sortFunc # NilSortFunc THEN SortFunc(meta) ELSE meta)), Nil)

\* attrError.LogValue(), the map visited in the given order
LogValue(e, order, sortFunc) ==
    LET meta == Ranged(e, order)
    IN IF sortFunc # NilSortFunc /\ Len(meta) = 0
       THEN Panic(<<"runtime error: slice bounds out of range [1:0]">>, <<>>)
       ELSE Return(GroupValue(WithSource(e,
                IF sortFunc # NilSortFunc
                THEN <<Head(meta)>> \o SortFunc(Tail(meta)) ELSE meta)), Nil)

\* the values DefaultMsgSlogKey is set to: slog.MessageKey, or "" to leave
\* the message out
MsgKeys == {DefaultMsgSlogKey, ""}

\* the attribute list after the range loop of LogValue when
\* DefaultMsgSlogKey is msgKey
RangedUnder(msgKey, e, order) ==
    LET metaMap == UnwrapAttr(e).kv
        visited == SelectSeq(order, LAMBDA k : k # DefaultSourceSlogKey)
    IN (IF msgKey # "" THEN <<Attr(msgKey, String(Error(e)))>> ELSE <<>>)
       \o [i \in 1..Len(visited) |-> Attr(visited[i], metaMap[visited[i]])]

\* attrError.LogValue() when DefaultMsgSlogKey is msgKey: meta[1:] panics
\* when meta is empty
LogValueUnder(msgKey, e, order, sortFunc) ==
    LET meta == RangedUnder(msgKey, e, order)
    IN IF sortFunc # NilSortFunc /\ Len(meta) = 0
       THEN Panic(<<"runtime error: slice bounds out of range [1:0]">>, <<>>)
       ELSE Return(GroupValue(WithSource(e,
                IF sortFunc # NilSortFunc
                THEN <<Head(meta)>> \o SortFunc(Tail(meta)) ELSE meta)), Nil)

\* slog.Value.String() and slog.Attr.String(); a group prints as the slice
\* of its attributes, "[k=v k=v]"
RECURSIVE ValueString(_)
RECURSIVE AttrsString(_, _)
AttrsString(attrs, i) ==
    IF i > Len(attrs) THEN <<>>
    ELSE (IF i = 1 THEN <<>> ELSE <<" ">>)
         \o <<attrs[i].key, "=">> \o ValueString(attrs[i].value)
         \o AttrsString(attrs, i + 1)
ValueString(value) ==
    CASE value.kind = "String" -> value.v
      [] value.kind = "Int64"  -> value.v
      [] value.kind = "Group"  -> <<"[">> \o AttrsString(value.v, 1) \o <<"]">>
      [] value.kind = "Any"    -> IF value.v = GoNil THEN <<"<nil>">> ELSE value.v.v
AttrString(a) == <<a.key, "=">> \o ValueString(a.value)

\* the verbs and flags tried; fmt.Sprint formats with %v
Verbs == {"v", "s"}

\* variant of Format that writes the message whatever the verb and flag
Format_MessageOnly(e, verb, plus, order, sortFunc) == Error(e)

\* attrError.Format(s, verb), what it writes; plus is s.Flag('+')
Format(e, verb, plus, order, sortFunc) ==
    IF verb = "v" /\ plus
    THEN ValueString(LogValue(e, order, sortFunc).val)
    ELSE Error(e)

----------------------------------------------------------------------------
(* []slog.Attr slices in memory, for goroutines that share a context *)

\* spare capacity (cells beyond the length) a backing array may have
MaxSpare == 1

\* a zeroed slog.Attr, the content of a cell beyond a slice's length
ZeroAttr == Attr("", ZeroValue)
\* a slice: its backing array in the heap and its length
Slice(arr, len) == [arr |-> arr, len |-> len]
Cap(h, s) == Len(h[s.arr])
Elems(h, s) == SubSeq(h[s.arr], 1, s.len)
\* a backing array holding the attributes and spare zeroed cells
Array(attrs, spare) == attrs \o [i \in 1..spare |-> ZeroAttr]

\* append(s, xs...): in place when the capacity suffices, else into a new
\* array, whose spare capacity is the runtime's choice
appendSlice(h, s, xs, spare) ==
    LET n == s.len + Len(xs)
    IN IF Len(xs) = 0 THEN [heap |-> h, slice |-> s]
       ELSE IF n <= Cap(h, s)
       THEN [heap |-> [h EXCEPT ![s.arr] =
                         [i \in 1..Len(@) |->
                            IF i > s.len /\ i <= n THEN xs[i - s.len] ELSE @[i]]],
             slice |-> Slice(s.arr, n)]
       ELSE [heap |-> Append(h, Array(Elems(h, s) \o xs, spare)),
             slice |-> Slice(Len(h) + 1, n)]

\* variant of appendMetaFromCtx that appends the new attributes to the
\* parent's slice: append(parent, meta...)
appendMetaFromCtxMem_ToParent(h, parent, meta, spare) ==
    IF ~parent.has THEN [heap |-> h, slice |-> meta]
    ELSE appendSlice(h, parent.slice, Elems(h, meta), spare)

\* appendMetaFromCtx on slices in memory, parent being what
\* ctx.Value(ctxKey{}) returned: append(meta, parent...)
appendMetaFromCtxMem(h, parent, meta, spare) ==
    IF ~parent.has THEN [heap |-> h, slice |-> meta]
    ELSE appendSlice(h, meta, Elems(h, parent.slice), spare)

----------------------------------------------------------------------------
(* Measures used by the guards and the properties *)

\* number of structured (attrError) nodes in an error value
RECURSIVE Nodes(_)
RECURSIVE NodesIn(_, _)
NodesIn(errs, i) == IF i > Len(errs) THEN 0 ELSE Nodes(errs[i]) + NodesIn(errs, i + 1)
Nodes(e) ==
    CASE e.t = "nil"   -> 0
      [] e.t = "plain" -> 0
      [] e.t = "fmt"   -> Nodes(e.error)
      [] e.t = "attr"  -> 1 + Nodes(e.error)
      [] e.t = "join"  -> NodesIn(e.errs, 1)

----------------------------------------------------------------------------
(* JoinAfter: error.go *)

\* a cleanup function value: nil, or a function returning ret when called
NilFunc == [isNil |-> TRUE, ret |-> Nil]
Func(r) == [isNil |-> FALSE, ret |-> r]
CleanupRets == {
    Nil,
    Plain(<<"close">>),
    AttrError(Plain(<<"flush">>), <<Attr("b", String(<<"2">>))>>)}
Funcs == {NilFunc} \cup {Func(r) : r \in CleanupRets}
FuncLists == SeqsUpTo(Funcs, MaxFuncs)

IdleJA == [pc |-> "idle", errFuncs |-> <<>>, i |-> 0, errs |-> <<>>,
           calls |-> <<>>, before |-> Nil]

----------------------------------------------------------------------------
(* State machine: one goroutine calling the package *)

Formats == {<<"failed">>}
Texts == {<<"oops">>}

\* the last call: its name, the error passed in, the explicit attributes,
\* the call site and, for Join, the list of errors passed
Call(op, in, meta, site) ==
    [op |-> op, in |-> in, meta |-> meta, site |-> site, args |-> <<>>]
NoCall == Call("none", Nil, <<>>, NoFrame)

\* no call has panicked or returned a value yet; no slice is shared and no
\* goroutine runs
NoOut == [kind |-> "none"]
NoHeap == <<>>
NoGoroutines == <<>>
\* no retry loop was started
NoRetry == [pc |-> "none"]
\* the state the calls on the error slot leave alone
rest == <<out, heap, gs, rt>>
Quiet == out = NoOut /\ heap = NoHeap /\ gs = NoGoroutines /\ rt = NoRetry

Init ==
    /\ err = Nil
    /\ held = Nil
    /\ ctx \in {NilCtx, Background}
    /\ last = NoCall
    /\ ja = IdleJA
    /\ limit = MaxNodes
    /\ Quiet

Idle == ja.pc # "run"

\* the function's own code fails with an error from outside the package
Fail(b) ==
    /\ Idle
    /\ err' = b
    /\ last' = Call("Fail", err, <<>>, NoFrame)
    /\ ja' = IdleJA
    /\ UNCHANGED <<held, ctx, limit, rest>>

\* the function's own code sets the return error to nil
Succeed ==
    /\ Idle
    /\ err # Nil
    /\ err' = Nil
    /\ last' = Call("Succeed", err, <<>>, NoFrame)
    /\ ja' = IdleJA
    /\ UNCHANGED <<held, ctx, limit, rest>>

\* err = fmt.Errorf("stdlib %w", err), as the tests' regErr does; explored
\* while the error may still be wrapped afterwards
StdWrap ==
    /\ Idle
    /\ err # Nil
    /\ err.t = "attr"
    /\ Nodes(err) + Nodes(held) < limit
    /\ err' = Errorf(<<"stdlib", "%w">>, err)
    /\ last' = Call("StdWrap", err, <<>>, NoFrame)
    /\ ja' = IdleJA
    /\ UNCHANGED <<held, ctx, limit, rest>>

DoNew(text, site) ==
    /\ Idle
    /\ err' = New(text, site)
    /\ last' = Call("New", Nil, <<>>, site)
    /\ ja' = IdleJA
    /\ UNCHANGED <<held, ctx, limit, rest>>

DoWrap(site) ==
    /\ Idle
    /\ Nodes(err) + Nodes(held) < limit
    /\ err' = Wrap(err, site)
    /\ last' = Call("Wrap", err, <<>>, site)
    /\ ja' = IdleJA
    /\ UNCHANGED <<held, ctx, limit, rest>>

DoWrapf(format, site) ==
    /\ Idle
    /\ Nodes(err) + Nodes(held) < limit
    /\ err' = Wrapf(err, format, site)
    /\ last' = Call("Wrapf", err, <<>>, site)
    /\ ja' = IdleJA
    /\ UNCHANGED <<held, ctx, limit, rest>>

DoWrapMeta(meta, site) ==
    /\ Idle
    /\ Nodes(err) + Nodes(held) < limit
    /\ err' = WrapMeta(err, meta, site)
    /\ last' = Call("WrapMeta", err, meta, site)
    /\ ja' = IdleJA
    /\ UNCHANGED <<held, ctx, limit, rest>>

DoWrapMetaCtx(meta, site) ==
    /\ Idle
    /\ Nodes(err) + Nodes(held) < limit
    /\ err' = WrapMetaCtx(ctx, err, meta, site)
    /\ last' = Call("WrapMetaCtx", err, meta, site)
    /\ ja' = IdleJA
    /\ UNCHANGED <<held, ctx, limit, rest>>

\* defer WrapMetaCtxAfter(ctx, &err, meta...)
DoWrapMetaCtxAfter(meta, site) ==
    /\ Idle
    /\ Nodes(err) + Nodes(held) < limit
    /\ err' = WrapMetaCtxAfter(ctx, err, meta, site)
    /\ last' = Call("WrapMetaCtxAfter", err, meta, site)
    /\ ja' = IdleJA
    /\ UNCHANGED <<held, ctx, limit, rest>>

\* ctx = AddMetaToCtx(ctx, meta...)
DoAddMetaToCtx(meta) ==
    /\ Idle
    /\ Len(ctx.attrs) + Len(meta) <= MaxCtxAttrs
    /\ ctx' = AddMetaToCtx(ctx, meta)
    /\ ctx' # ctx
    /\ last' = Call("AddMetaToCtx", Nil, meta, NoFrame)
    /\ ja' = IdleJA
    /\ UNCHANGED <<err, held, limit, rest>>

\* the caller keeps the current error aside (an earlier result)
Keep ==
    /\ Idle
    /\ err # Nil
    /\ held = Nil
    /\ held' = err
    /\ last' = Call("Keep", err, <<>>, NoFrame)
    /\ ja' = IdleJA
    /\ UNCHANGED <<err, ctx, limit, rest>>

\* err = Join(...) over nil, the error kept aside and the current error;
\* the error kept aside is given up
JoinArgs(x, y) == {<<Nil, x, Nil, y>>, <<y, x>>, <<Nil, y>>, <<Nil, Nil>>, <<>>}
DoJoin(args) ==
    /\ Idle
    /\ Nodes(err) + Nodes(held) < limit
    /\ err' = Join(args)
    /\ held' = Nil
    /\ last' = [Call("Join", err, <<>>, NoFrame) EXCEPT !.args = args]
    /\ ja' = IdleJA
    /\ UNCHANGED <<ctx, limit, rest>>

\* defer JoinAfter(&err, errFuncs...): entry with errPtr # nil
JoinAfterEnter(errFuncs) ==
    /\ Idle
    /\ Nodes(err) < limit
    /\ ja' = [pc |-> "run", errFuncs |-> errFuncs, i |-> 1, errs |-> <<>>,
              calls |-> <<>>, before |-> err]
    /\ last' = Call("JoinAfter", err, <<>>, NoFrame)
    /\ UNCHANGED <<err, held, ctx, limit, rest>>

\* variant of the loop that stops at the first cleanup returning an error
JoinAfterLoop_ShortCircuit ==
    /\ ja.pc = "run"
    /\ ja.i <= Len(ja.errFuncs)
    /\ LET errFunc == ja.errFuncs[ja.i]
       IN ja' = IF errFunc.isNil
                THEN [ja EXCEPT !.i = @ + 1]
                ELSE [ja EXCEPT !.i = IF errFunc.ret # Nil
                                       THEN Len(ja.errFuncs) + 1 ELSE @ + 1,
                                !.errs = Append(@, errFunc.ret),
                                !.calls = Append(@, ja.i)]
    /\ UNCHANGED <<err, held, ctx, last, limit, rest>>

\* one iteration of: for _, errFunc := range errFuncs
JoinAfterLoop ==
    /\ ja.pc = "run"
    /\ ja.i <= Len(ja.errFuncs)
    /\ LET errFunc == ja.errFuncs[ja.i]
       IN ja' = IF errFunc.isNil
                THEN [ja EXCEPT !.i = @ + 1]
                ELSE [ja EXCEPT !.i = @ + 1,
                                !.errs = Append(@, errFunc.ret),
                                !.calls = Append(@, ja.i)]
    /\ UNCHANGED <<err, held, ctx, last, limit, rest>>

\* *errPtr = Join(append(errs, *errPtr)...)
JoinAfterStore ==
    /\ ja.pc = "run"
    /\ ja.i > Len(ja.errFuncs)
    /\ err' = Join(Append(ja.errs, err))
    /\ ja' = [ja EXCEPT !.pc = "done"]
    /\ UNCHANGED <<held, ctx, last, limit, rest>>

\* the goroutine has not panicked
Running == out.kind # "panic"

\* defer WrapMetaCtxAfter(ctx, nil, meta...)
DoWrapMetaCtxAfterNil(meta, site) ==
    /\ Idle
    /\ Running
    /\ out' = WrapMetaCtxAfterNil(ctx, meta)
    /\ last' = Call("WrapMetaCtxAfter", NilPtr, meta, site)
    /\ ja' = IdleJA
    /\ UNCHANGED <<err, held, ctx, limit, heap, gs, rt>>

\* defer JoinAfter(nil, errFuncs...)
DoJoinAfterNil(errFuncs) ==
    /\ Idle
    /\ Running
    /\ out' = JoinAfterNil(errFuncs)
    /\ last' = [Call("JoinAfter", NilPtr, <<>>, NoFrame) EXCEPT !.args = errFuncs]
    /\ ja' = IdleJA
    /\ UNCHANGED <<err, held, ctx, limit, heap, gs, rt>>

\* errors.Get[T](meta, key) on the current error's flattened map, or on a
\* map variable that was never made
DoGet(nilMap, key, T) ==
    /\ Idle
    /\ LET meta == IF nilMap THEN NilMap ELSE UnwrapAttr(err)
       IN /\ out' = Get(meta, key, T)
          /\ last' = [Call("Get", err, <<>>, NoFrame) EXCEPT !.args = <<meta, key, T>>]
    /\ ja' = IdleJA
    /\ UNCHANGED <<err, held, ctx, limit, heap, gs, rt>>

\* val, ok := errors.Into[T](err)
DoInto(T) ==
    /\ Idle
    /\ err # Nil
    /\ out' = [kind |-> "found", val |-> Into(err, T).val, ok |-> Into(err, T).ok]
    /\ last' = [Call("Into", err, <<>>, NoFrame) EXCEPT !.args = <<T>>]
    /\ ja' = IdleJA
    /\ UNCHANGED <<err, held, ctx, limit, heap, gs, rt>>

\* slog resolves the error it is handed: err.(slog.LogValuer).LogValue(),
\* under the configured AttrCompareSortFunc
DoLogValue(order, sortFunc) ==
    /\ Idle
    /\ err.t = "attr"
    /\ out' = LogValue(err, order, sortFunc)
    /\ last' = [Call("LogValue", err, <<>>, NoFrame) EXCEPT !.args = <<order, sortFunc>>]
    /\ ja' = IdleJA
    /\ UNCHANGED <<err, held, ctx, limit, heap, gs, rt>>

\* err.LogValue() with the package configured by DefaultMsgSlogKey = msgKey
\* and AttrCompareSortFunc = sortFunc
DoLogValueUnder(msgKey, order, sortFunc) ==
    /\ Idle
    /\ err.t = "attr"
    /\ out' = LogValueUnder(msgKey, err, order, sortFunc)
    /\ last' = [Call("LogValue", err, <<>>, NoFrame)
                  EXCEPT !.args = <<order, sortFunc, msgKey>>]
    /\ ja' = IdleJA
    /\ UNCHANGED <<err, held, ctx, limit, heap, gs, rt>>

\* two errors are logged, each with its own visit of its map, under
\* AttrCompareSortFunc = cmp.Compare(a.Key, b.Key)
DoLogBoth(order1, order2) ==
    /\ Idle
    /\ held.t = "attr"
    /\ err.t = "attr"
    /\ out' = [kind |-> "pair",
               x |-> LogValue(held, order1, CompareKeys),
               y |-> LogValue(err, order2, CompareKeys)]
    /\ last' = [Call("LogBoth", err, <<>>, NoFrame) EXCEPT !.args = <<order1, order2>>]
    /\ ja' = IdleJA
    /\ UNCHANGED <<err, held, ctx, limit, heap, gs, rt>>

\* fmt.Sprintf("%v" / "%+v" / "%s" / "%+s", err)
DoFormat(verb, plus, order, sortFunc) ==
    /\ Idle
    /\ err.t = "attr"
    /\ out' = [kind |-> "text", val |-> Format(err, verb, plus, order, sortFunc)]
    /\ last' = [Call("Format", err, <<>>, NoFrame) EXCEPT !.args = <<verb, plus>>]
    /\ ja' = IdleJA
    /\ UNCHANGED <<err, held, ctx, limit, heap, gs, rt>>

\* the goroutines that derive a context from the same parent
Goroutines == {1, 2}

\* goroutine g enters AddMetaToCtx(parent, meta...): ctx is not nil, and
\* ctx.Value(ctxKey{}) returns what the parent context stores
GoValue(g) ==
    /\ gs.run[g].pc = "start"
    /\ gs' = [gs EXCEPT !.run[g].pc = "append", !.run[g].parent = gs.parent]
    /\ UNCHANGED <<err, held, ctx, last, ja, limit, out, heap, rt>>

\* goroutine g runs append(meta, parent...)
GoAppend(g, spare) ==
    /\ gs.run[g].pc = "append"
    /\ LET r == appendMetaFromCtxMem(heap, gs.run[g].parent, gs.run[g].meta, spare)
       IN /\ heap' = r.heap
          /\ gs' = [gs EXCEPT !.run[g].pc = "store", !.run[g].res = r.slice]
    /\ UNCHANGED <<err, held, ctx, last, ja, limit, out, rt>>

\* goroutine g returns context.WithValue(ctx, ctxKey{}, ...): a new context
GoWithValue(g) ==
    /\ gs.run[g].pc = "store"
    /\ gs' = [gs EXCEPT !.run[g].pc = "done",
                         !.run[g].derived = [has |-> TRUE, slice |-> gs.run[g].res]]
    /\ UNCHANGED <<err, held, ctx, last, ja, limit, out, heap, rt>>

\* attachments a context may go through
MaxAttach == 2

\* the attribute lists attached to the context so far, oldest first
Attached == IF out.kind = "attached" THEN out.metas ELSE <<>>

\* ctx = AddMetaToCtx(ctx, meta...), the attachments being recorded
DoAttach(meta) ==
    /\ Idle
    /\ Len(Attached) < MaxAttach
    /\ ctx' = AddMetaToCtx(ctx, meta)
    /\ out' = [kind |-> "attached", metas |-> Append(Attached, meta)]
    /\ last' = Call("AddMetaToCtx", Nil, meta, NoFrame)
    /\ ja' = IdleJA
    /\ UNCHANGED <<err, held, limit, heap, gs, rt>>

\* the call site used where the site makes no difference
JoinSite == CHOOSE site \in Sites : TRUE

Next ==
    \/ \E b \in BaseErrs : Fail(b)
    \/ Succeed
    \/ StdWrap
    \/ \E text \in Texts, site \in Sites : DoNew(text, site)
    \/ DoWrap(JoinSite)
    \/ \E format \in Formats : DoWrapf(format, JoinSite)
    \/ \E meta \in AttrLists : DoWrapMeta(meta, JoinSite)
    \/ \E meta \in AttrLists : DoWrapMetaCtx(meta, JoinSite)
    \/ \E meta \in AttrLists : DoWrapMetaCtxAfter(meta, JoinSite)
    \/ \E meta \in CtxAttrLists : DoAddMetaToCtx(meta)

Spec == Init /\ [][Next]_vars

\* a caller that wraps without a context and joins its errors
InitJoin ==
    /\ err = Nil
    /\ held = Nil
    /\ ctx = NilCtx
    /\ last = NoCall
    /\ ja = IdleJA
    /\ limit = MaxJoinNodes
    /\ Quiet

JoinAttrLists == {<<>>, <<g0, a1>>, <<b1, a2>>}

NextJoin ==
    \/ \E b \in BaseErrs : Fail(b)
    \/ StdWrap
    \/ \E text \in Texts : DoNew(text, JoinSite)
    \/ DoWrap(JoinSite)
    \/ \E meta \in JoinAttrLists : DoWrapMeta(meta, JoinSite)
    \/ Keep
    \/ \E args \in JoinArgs(held, err) : DoJoin(args)

SpecJoin == InitJoin /\ [][NextJoin]_vars

\* a caller whose function defers JoinAfter on its named return error
InitJoinAfter ==
    /\ err = Nil
    /\ held = Nil
    /\ ctx = NilCtx
    /\ last = NoCall
    /\ ja = IdleJA
    /\ limit = MaxNodes
    /\ Quiet

NextJoinAfter ==
    \/ \E b \in BaseErrs : Fail(b)
    \/ Succeed
    \/ \E meta \in JoinAttrLists : DoWrapMeta(meta, JoinSite)
    \/ \E errFuncs \in FuncLists : JoinAfterEnter(errFuncs)
    \/ JoinAfterLoop
    \/ JoinAfterStore

SpecJoinAfter == InitJoinAfter /\ [][NextJoinAfter]_vars

\* a caller that both joins errors itself and defers JoinAfter
BothFuncLists == {<<>>, <<Func(Nil)>>, <<NilFunc, Func(Plain(<<"close">>))>>}

NextJoinBoth ==
    \/ \E b \in BaseErrs : Fail(b)
    \/ Succeed
    \/ \E text \in Texts : DoNew(text, JoinSite)
    \/ Keep
    \/ \E args \in JoinArgs(held, err) : DoJoin(args)
    \/ \E errFuncs \in BothFuncLists : JoinAfterEnter(errFuncs)
    \/ JoinAfterLoop
    \/ JoinAfterStore

SpecJoinBoth == InitJoinAfter /\ [][NextJoinBoth]_vars

\* a caller whose deferred calls may be handed a nil error pointer; a panic
\* ends the goroutine
InitPanic ==
    /\ err = Nil
    /\ held = Nil
    /\ ctx \in {NilCtx, Background}
    /\ last = NoCall
    /\ ja = IdleJA
    /\ limit = MaxNodes
    /\ Quiet

PanicFuncLists == {<<>>, <<NilFunc, Func(Nil)>>, <<Func(Plain(<<"close">>))>>}

NextPanic ==
    \/ \E b \in BaseErrs : Running /\ Fail(b)
    \/ Running /\ Succeed
    \/ \E meta \in JoinAttrLists : Running /\ DoWrapMetaCtxAfter(meta, JoinSite)
    \/ \E errFuncs \in PanicFuncLists : Running /\ JoinAfterEnter(errFuncs)
    \/ JoinAfterLoop
    \/ JoinAfterStore
    \/ \E meta \in JoinAttrLists : DoWrapMetaCtxAfterNil(meta, JoinSite)
    \/ \E errFuncs \in PanicFuncLists : DoJoinAfterNil(errFuncs)

SpecPanic == InitPanic /\ [][NextPanic]_vars

\* a caller that reads typed values back from its errors
GetAttrLists == {
    <<Attr("n", Int64(<<"7">>)), a1>>,
    <<Attr("e", AnyValue(GoVal("*errors.errorString", <<"EOF">>))),
      Attr("z", AnyValue(GoNil))>>,
    <<Attr("g", Group(<<a1>>)), g0>>}
GetKeys == {"a", "n", "e", "z", "g", DefaultSourceSlogKey, "absent"}

NextGet ==
    \/ \E b \in BaseErrs : Fail(b)
    \/ \E meta \in GetAttrLists : DoWrapMeta(meta, JoinSite)
    \/ \E nilMap \in BOOLEAN, key \in GetKeys, T \in Types : DoGet(nilMap, key, T)

SpecGet == InitJoinAfter /\ [][NextGet]_vars

\* a caller that wraps and joins errors of its own types and looks them up
IntoBaseErrs == {Plain(<<"EOF">>), Plain(<<"close">>)}
IntoTypes == {"plain", "fmt", "attr", "join"}

\* the error is built first and looked up afterwards
Building == out = NoOut

NextInto ==
    \/ \E b \in IntoBaseErrs : Building /\ Fail(b)
    \/ Building /\ StdWrap
    \/ Building /\ DoWrap(JoinSite)
    \/ \E format \in Formats : Building /\ DoWrapf(format, JoinSite)
    \/ Building /\ DoWrapMeta(<<a1>>, JoinSite)
    \/ Building /\ Keep
    \/ \E args \in {<<held, err>>, <<err, held>>} : Building /\ DoJoin(args)
    \/ \E T \in IntoTypes : DoInto(T)

SpecInto == InitJoinAfter /\ [][NextInto]_vars

\* a caller that logs its errors
LogAttrLists == {<<b1, a2>>, <<s1, a1>>, <<Attr(DefaultMsgSlogKey, String(<<"m">>)), g0>>}

NextLog ==
    \/ \E b \in BaseErrs : Building /\ Fail(b)
    \/ Building /\ StdWrap
    \/ \E text \in Texts : Building /\ DoNew(text, JoinSite)
    \/ \E meta \in LogAttrLists : Building /\ DoWrapMeta(meta, JoinSite)
    \/ Building /\ Keep
    \/ \E args \in {<<held, err>>, <<err>>} : Building /\ DoJoin(args)
    \/ \E order \in Orders(UnwrapAttr(err).kv), sortFunc \in SortFuncs :
          Building /\ DoLogValue(order, sortFunc)

SpecLog == InitJoinAfter /\ [][NextLog]_vars

\* a caller that logs its errors under either setting of DefaultMsgSlogKey
NextLogUnder ==
    \/ \E b \in BaseErrs : Building /\ Fail(b)
    \/ \E text \in Texts : Building /\ DoNew(text, JoinSite)
    \/ \E meta \in LogAttrLists : Building /\ DoWrapMeta(meta, JoinSite)
    \/ Building /\ DoJoin(<<err>>)
    \/ \E msgKey \in MsgKeys, sortFunc \in SortFuncs :
          \E order \in Orders(UnwrapAttr(err).kv) :
             Building /\ DoLogValueUnder(msgKey, order, sortFunc)

SpecLogUnder == InitJoinAfter /\ [][NextLogUnder]_vars

\* a caller that logs two errors built from attributes in different orders
PairAttrLists == {<<a1, b1>>, <<b1, a1>>, <<a1, a2>>, <<a2, a1>>}

NextLogPair ==
    \/ \E b \in BaseErrs : Building /\ Fail(b)
    \/ \E meta \in PairAttrLists : Building /\ DoWrapMeta(meta, JoinSite)
    \/ Building /\ Keep
    \/ \E order1 \in Orders(UnwrapAttr(held).kv), order2 \in Orders(UnwrapAttr(err).kv) :
          Building /\ DoLogBoth(order1, order2)

SpecLogPair == InitJoinAfter /\ [][NextLogPair]_vars

\* a caller that prints its errors
NextFormat ==
    \/ \E b \in BaseErrs : Building /\ Fail(b)
    \/ Building /\ StdWrap
    \/ \E text \in Texts : Building /\ DoNew(text, JoinSite)
    \/ \E meta \in LogAttrLists : Building /\ DoWrapMeta(meta, JoinSite)
    \/ Building /\ Keep
    \/ \E args \in {<<held, err>>, <<err>>} : Building /\ DoJoin(args)
    \/ \E verb \in Verbs, plus \in BOOLEAN, sortFunc \in SortFuncs,
          order \in Orders(UnwrapAttr(err).kv) :
          Building /\ DoFormat(verb, plus, order, sortFunc)

SpecFormat == InitJoinAfter /\ [][NextFormat]_vars

\* two goroutines derive contexts from one parent. The parent was made by
\* AddMetaToCtx(context.Background(), p...), so it stores the slice of its
\* caller, which may have spare capacity, as may each goroutine's own
\* argument slice.
ParentAttrs == <<Attr("n", Int64(<<"7">>))>>
OwnAttrs == [g \in Goroutines |-> IF g = 1 THEN {<<a1>>, <<a1, a2>>} ELSE {<<b1>>}]
NoCtxValue == [has |-> FALSE, slice |-> Slice(0, 0)]

InitCtxConc ==
    /\ err = Nil
    /\ held = Nil
    /\ ctx = [isNil |-> FALSE, has |-> TRUE, attrs |-> ParentAttrs]
    /\ last = NoCall
    /\ ja = IdleJA
    /\ limit = MaxNodes
    /\ out = NoOut
    /\ rt = NoRetry
    /\ \E spareP, spare1, spare2 \in 0..MaxSpare, m1 \in OwnAttrs[1], m2 \in OwnAttrs[2] :
          /\ heap = <<Array(ParentAttrs, spareP), Array(m1, spare1), Array(m2, spare2)>>
          /\ gs = [parent |-> [has |-> TRUE, slice |-> Slice(1, Len(ParentAttrs))],
                   run |-> [g \in Goroutines |->
                              [pc |-> "start",
                               own |-> IF g = 1 THEN m1 ELSE m2,
                               meta |-> Slice(g + 1, Len(IF g = 1 THEN m1 ELSE m2)),
                               parent |-> NoCtxValue,
                               res |-> Slice(0, 0),
                               derived |-> NoCtxValue]]]

NextCtxConc ==
    \/ \E g \in Goroutines : GoValue(g)
    \/ \E g \in Goroutines, spare \in 0..MaxSpare : GoAppend(g, spare)
    \/ \E g \in Goroutines : GoWithValue(g)

SpecCtxConc == InitCtxConc /\ [][NextCtxConc]_vars

\* a caller that attaches attributes to its context more than once
InitAttach ==
    /\ err = Nil
    /\ held = Nil
    /\ ctx = Background
    /\ last = NoCall
    /\ ja = IdleJA
    /\ limit = MaxNodes
    /\ Quiet

AttachLists == {<<a1>>, <<a2>>, <<b1, a2>>}

NextAttach ==
    \/ \E b \in BaseErrs : Fail(b)
    \/ \E meta \in AttachLists : DoAttach(meta)
    \/ \E meta \in {<<>>, <<b1>>} : DoWrapMetaCtx(meta, JoinSite)
    \/ \E meta \in {<<>>, <<b1>>} : DoWrapMetaCtxAfter(meta, JoinSite)

SpecAttach == InitAttach /\ [][NextAttach]_vars

----------------------------------------------------------------------------
(* Package retry: UntilDone, WithBackoff, WithMaxAttempts *)

\* calls of fn one loop is followed through, and the largest maxAttempts passed
MaxCalls == 4
MaxAttemptsArg == 2

\* time.Duration values, in seconds
fibonacciDurations == <<0, 1, 1, 2, 3, 5, 8, 13, 21, 34>>

FibonacciDelay(attempt) ==
    IF attempt < Len(fibonacciDurations)
    THEN fibonacciDurations[attempt + 1]
    ELSE fibonacciDurations[Len(fibonacciDurations)]

\* the delay functions a caller passes: nil, or func(uint) time.Duration
\* { return 0 }
NilDelay == "nil"
Delays == {NilDelay, "zero"}
CallDelay(delay, attempt) ==
    IF delay = "FibonacciDelay" THEN FibonacciDelay(attempt) ELSE 0

\* a time.Timer: the duration it was set to, what set it, and whether its
\* channel holds a value
NoTimer == [d |-> 0, set |-> <<"none", 0>>, armed |-> FALSE, fired |-> FALSE]
NewTimer(d) == [d |-> d, set |-> <<"NewTimer", 0>>, armed |-> TRUE, fired |-> FALSE]
Reset(delay, attempts) ==
    [d |-> CallDelay(delay, attempts), set |-> <<"delay", attempts>>,
     armed |-> TRUE, fired |-> FALSE]

\* a loop at its first select; calls, fails, prev, waited, began and late
\* record what the loop did: the calls of fn started, the failed calls in
\* a row since the last success, the result of the preceding call, what had
\* set the timer the loop last received from, whether the context was done
\* when the iteration began, and the calls started with the context done
Loop(f, maxAttempts, delay, tmr, done) ==
    [pc |-> "select", f |-> f, maxAttempts |-> maxAttempts, delay |-> delay,
     attempts |-> 0, tmr |-> tmr, done |-> done,
     calls |-> 0, fails |-> 0, prev |-> FALSE, waited |-> NoTimer.set,
     began |-> FALSE, late |-> 0]

UntilDone(done) == Loop("UntilDone", 0, "none", NoTimer, done)

WithMaxAttempts(done, maxAttempts, delay) ==
    Loop("WithMaxAttempts", maxAttempts,
         IF delay = NilDelay THEN "FibonacciDelay" ELSE delay,
         NewTimer(0), done)

WithBackoff(done, delay) == WithMaxAttempts(done, 0, delay)

\* variant of OuterSelect that never looks at ctx.Done()
OuterSelect_NoCheck(done) == "default"

\* select { case <-ctx.Done(): return; default: ... }
OuterSelect(done) == IF done THEN "return" ELSE "default"

\* the cases of select { case <-ctx.Done(): return; case <-tmr.C: } that
\* are ready; the runtime picks one of them
InnerSelect(done, tmr) ==
    (IF done THEN {"return"} ELSE {}) \cup (IF tmr.fired THEN {"tmr.C"} ELSE {})

\* variant of AfterFn that keeps counting after a success
AfterFn_NoReset(ok, attempts, maxAttempts) ==
    IF ok THEN [ret |-> FALSE, attempts |-> attempts]
    ELSE IF maxAttempts > 0 /\ attempts >= maxAttempts
         THEN [ret |-> TRUE, attempts |-> attempts]
         ELSE [ret |-> FALSE, attempts |-> attempts + 1]

\* what follows fn(): attempts = 0, return, or attempts++
AfterFn(ok, attempts, maxAttempts) ==
    IF ok THEN [ret |-> FALSE, attempts |-> 0]
    ELSE IF maxAttempts > 0 /\ attempts >= maxAttempts
         THEN [ret |-> TRUE, attempts |-> attempts]
         ELSE [ret |-> FALSE, attempts |-> attempts + 1]

others == <<err, held, ctx, last, ja, limit, out, heap, gs>>

DoUntilDone(done) ==
    /\ rt = NoRetry
    /\ rt' = UntilDone(done)
    /\ UNCHANGED others

DoWithBackoff(done, delay) ==
    /\ rt = NoRetry
    /\ rt' = WithBackoff(done, delay)
    /\ UNCHANGED others

DoWithMaxAttempts(done, maxAttempts, delay) ==
    /\ rt = NoRetry
    /\ rt' = WithMaxAttempts(done, maxAttempts, delay)
    /\ UNCHANGED others

Looping == rt.pc \notin {"none", "returned"}

\* the context is cancelled or times out
CtxDone ==
    /\ Looping
    /\ ~rt.done
    /\ rt' = [rt EXCEPT !.done = TRUE]
    /\ UNCHANGED others

\* the timer's duration has passed
TimerFires ==
    /\ Looping
    /\ rt.tmr.armed
    /\ rt' = [rt EXCEPT !.tmr.armed = FALSE, !.tmr.fired = TRUE]
    /\ UNCHANGED others

\* the select at the top of the loop
Select ==
    /\ rt.pc = "select"
    /\ rt' = [rt EXCEPT
                !.began = rt.done,
                !.pc = IF OuterSelect(rt.done) = "return" THEN "returned"
                       ELSE IF rt.f = "UntilDone" THEN "call" ELSE "wait"]
    /\ UNCHANGED others

\* the select inside default: the loop waits for the context or the timer
Wait ==
    /\ rt.pc = "wait"
    /\ \E c \in InnerSelect(rt.done, rt.tmr) :
          rt' = IF c = "return" THEN [rt EXCEPT !.pc = "returned"]
                ELSE [rt EXCEPT !.pc = "call", !.waited = rt.tmr.set,
                                !.tmr.fired = FALSE]
    /\ UNCHANGED others

\* fn is entered
StartFn ==
    /\ rt.pc = "call"
    /\ rt.calls < MaxCalls
    /\ rt' = [rt EXCEPT !.pc = "fn", !.calls = rt.calls + 1,
                        !.late = rt.late + (IF rt.done THEN 1 ELSE 0)]
    /\ UNCHANGED others

\* UntilDone: fn returns and the loop starts over
FnDone ==
    /\ rt.pc = "fn"
    /\ rt.f = "UntilDone"
    /\ rt' = [rt EXCEPT !.pc = "select"]
    /\ UNCHANGED others

\* WithMaxAttempts: fn returns ok; the loop returns, or resets the timer to
\* delay(attempts) and starts over
FnReturns(ok) ==
    /\ rt.pc = "fn"
    /\ rt.f = "WithMaxAttempts"
    /\ LET a == AfterFn(ok, rt.attempts, rt.maxAttempts)
           r == [rt EXCEPT !.prev = ok,
                           !.fails = IF ok THEN 0 ELSE rt.fails + 1]
       IN rt' = IF a.ret THEN [r EXCEPT !.pc = "returned"]
                ELSE [r EXCEPT !.pc = "select", !.attempts = a.attempts,
                               !.tmr = Reset(rt.delay, a.attempts)]
    /\ UNCHANGED others

NextRetry ==
    \/ \E done \in BOOLEAN : DoUntilDone(done)
    \/ \E done \in BOOLEAN, delay \in Delays : DoWithBackoff(done, delay)
    \/ \E done \in BOOLEAN, maxAttempts \in 1..MaxAttemptsArg, delay \in Delays :
          DoWithMaxAttempts(done, maxAttempts, delay)
    \/ CtxDone
    \/ TimerFires
    \/ Select
    \/ Wait
    \/ StartFn
    \/ FnDone
    \/ \E ok \in BOOLEAN : FnReturns(ok)

\* no call was made yet
InitRetry ==
    /\ err = Nil
    /\ held = Nil
    /\ ctx = Background
    /\ last = NoCall
    /\ ja = IdleJA
    /\ limit = MaxNodes
    /\ Quiet

SpecRetry == InitRetry /\ [][NextRetry]_vars

----------------------------------------------------------------------------
(* Error values in memory: an error variable refers to a boxed value, and a
   copy of the variable refers to the same box *)

\* boxes one caller is followed through
MaxBoxes == 5

\* the nil error
NilRef == 0

\* the error a reference stands for; boxes refer to the errors they wrap
RECURSIVE ValueOf(_, _)
RECURSIVE ValuesOfRefs(_, _, _)
ValuesOfRefs(h, refs, i) ==
    IF i > Len(refs) THEN <<>>
    ELSE <<ValueOf(h, refs[i])>> \o ValuesOfRefs(h, refs, i + 1)
ValueOf(h, ref) ==
    IF ref = NilRef THEN Nil
    ELSE CASE h[ref].t = "plain" -> h[ref]
           [] h[ref].t = "fmt"   ->
                [t |-> "fmt", msg |-> h[ref].msg, error |-> ValueOf(h, h[ref].error)]
           [] h[ref].t = "attr"  -> AttrError(ValueOf(h, h[ref].error), h[ref].attrs)
           [] h[ref].t = "join"  ->
                [t |-> "join", errs |-> ValuesOfRefs(h, h[ref].errs, 1)]

\* a value is boxed when it is assigned to an error variable
Box(h, obj) == [heap |-> Append(h, obj), ref |-> Len(h) + 1]

\* variant of maybeWrapMetaErrorMem that adds the attributes to the record of
\* the node it is given
maybeWrapMetaErrorMem_InPlace(h, ref, meta) ==
    IF h[ref].t = "attr"
    THEN [heap |-> [h EXCEPT ![ref].attrs = @ \o AddAttrs(meta)], ref |-> ref]
    ELSE Box(h, [t |-> "attr", error |-> ref, attrs |-> AddAttrs(meta)])

\* merr := metaError{error: err}; merr.r.AddAttrs(meta...); return merr
maybeWrapMetaErrorMem(h, ref, meta) ==
    LET isMeta == h[ref].t = "attr"
    IN IF Len(meta) = 0 /\ isMeta THEN [heap |-> h, ref |-> ref]
       ELSE Box(h, [t |-> "attr", error |-> ref, attrs |-> AddAttrs(meta)])

\* WrapMetaCtxAfter(ctx, &err, meta...) with err referring to ref
WrapMetaCtxAfterMem(h, c, ref, meta, site) ==
    IF ref = NilRef THEN [heap |-> h, ref |-> ref]
    ELSE maybeWrapMetaErrorMem(h, ref,
            appendMetaFromCtx(c,
                appendFileToAttr(meta, ValueOf(h, ref), caller - 1, NoFrame,
                                 CtxStack("errors.WrapMetaCtxAfter", "116", site))))

\* Wrap(err): fmt.Errorf's error and the node around it are new values
WrapMem(h, ref, site) ==
    IF ref = NilRef THEN [heap |-> h, ref |-> ref]
    ELSE LET v == Wrap(ValueOf(h, ref), site)
             f == Box(h, [t |-> "fmt", msg |-> v.error.msg, error |-> ref])
         IN Box(f.heap, [t |-> "attr", error |-> f.ref, attrs |-> v.attrs])

\* Join(errs...): errors.Join copies the non-nil errors into a slice of its own
JoinMem(h, refs) ==
    LET nonNil == SelectSeq(refs, LAMBDA r : r # NilRef)
    IN IF nonNil = <<>> THEN [heap |-> h, ref |-> NilRef]
       ELSE LET j == Box(h, [t |-> "join", errs |-> nonNil])
            IN Box(j.heap, [t |-> "attr", error |-> j.ref, attrs |-> <<>>])

\* the caller goes on until it reads the error
Room(n) == out = NoOut /\ Len(heap) + n <= MaxBoxes

\* the function's own code fails with an error from outside the package
FailMem(b) ==
    /\ Room(1)
    /\ heap' = Box(heap, b).heap
    /\ err' = Box(heap, b).ref
    /\ last' = Call("Fail", err, <<>>, NoFrame)
    /\ UNCHANGED <<held, ctx, ja, limit, out, gs, rt>>

\* held = err: both variables refer to the same value
KeepMem ==
    /\ Room(0)
    /\ err # NilRef
    /\ held # err
    /\ held' = err
    /\ last' = Call("Keep", err, <<>>, NoFrame)
    /\ UNCHANGED <<err, ctx, ja, limit, out, heap, gs, rt>>

DoWrapMem(site) ==
    /\ Room(2)
    /\ LET r == WrapMem(heap, err, site)
       IN heap' = r.heap /\ err' = r.ref
    /\ last' = Call("Wrap", err, <<>>, site)
    /\ UNCHANGED <<held, ctx, ja, limit, out, gs, rt>>

\* defer WrapMetaCtxAfter(ctx, &err, meta...)
DoWrapMetaCtxAfterMem(meta, site) ==
    /\ Room(1)
    /\ LET r == WrapMetaCtxAfterMem(heap, ctx, err, meta, site)
       IN heap' = r.heap /\ err' = r.ref
    /\ last' = Call("WrapMetaCtxAfter", err, meta, site)
    /\ UNCHANGED <<held, ctx, ja, limit, out, gs, rt>>

\* err = Join(held, err)
DoJoinMem ==
    /\ Room(2)
    /\ LET r == JoinMem(heap, <<held, err>>)
       IN heap' = r.heap /\ err' = r.ref
    /\ last' = [Call("Join", err, <<>>, NoFrame) EXCEPT !.args = <<held, err>>]
    /\ UNCHANGED <<held, ctx, ja, limit, out, gs, rt>>

\* UnwrapAttr(err), and err.LogValue() when err is a structured node
DoReadMem(order, sortFunc) ==
    /\ Room(0)
    /\ err # NilRef
    /\ order \in Orders(UnwrapAttr(ValueOf(heap, err)).kv)
    /\ out' = [kind |-> "read",
               flat |-> UnwrapAttr(ValueOf(heap, err)),
               log  |-> IF heap[err].t = "attr"
                        THEN LogValue(ValueOf(heap, err), order, sortFunc)
                        ELSE NoOut]
    /\ last' = Call("LogValue", err, <<>>, NoFrame)
    /\ UNCHANGED <<err, held, ctx, ja, limit, heap, gs, rt>>

\* a caller whose error variables refer to boxed values
InitMem ==
    /\ err = NilRef
    /\ held = NilRef
    /\ ctx \in {Background, AddMetaToCtx(Background, <<a1>>)}
    /\ last = NoCall
    /\ ja = IdleJA
    /\ limit = MaxNodes
    /\ Quiet

NextMem ==
    \/ \E b \in BaseErrs : FailMem(b)
    \/ KeepMem
    \/ DoWrapMem(JoinSite)
    \/ \E meta \in {<<>>, <<b1, a2>>} : DoWrapMetaCtxAfterMem(meta, JoinSite)
    \/ DoJoinMem
    \/ \E sortFunc \in SortFuncs :
          \E order \in Orders(UnwrapAttr(ValueOf(heap, err)).kv) :
             DoReadMem(order, sortFunc)

SpecMem == InitMem /\ [][NextMem]_vars

----------------------------------------------------------------------------
(* IsInterfaceNil and Or: error.go *)

\* arguments Or is called with
MaxVals == 2

\* reflect.Kind of the values an interface can hold, and the kinds whose
\* values can be nil
Kinds == {"Bool", "Int", "Int8", "Int16", "Int32", "Int64", "Uint", "Uint8",
          "Uint16", "Uint32", "Uint64", "Uintptr", "Float32", "Float64",
          "Complex64", "Complex128", "Array", "Chan", "Func", "Map", "Ptr",
          "Slice", "String", "Struct", "UnsafePointer"}
Nilable == {"Chan", "Func", "Map", "Ptr", "Slice", "UnsafePointer"}

\* an interface value: nil, or a value of some kind that is nil or not
NilInterface == [kind |-> "Invalid", isNil |-> TRUE]
Of(kind, isNil) == [kind |-> kind, isNil |-> isNil]
Interfaces ==
    {NilInterface} \cup {Of(k, FALSE) : k \in Kinds} \cup {Of(k, TRUE) : k \in Nilable}

\* reflect.ValueOf(i).IsNil(): panics unless the kind is chan, func,
\* interface, map, pointer, slice or unsafe pointer
IsNil(v) ==
    IF v.kind \in Nilable \cup {"Interface"} THEN Return(v.isNil, Nil)
    ELSE Panic(<<"reflect: call of reflect.Value.IsNil on", v.kind, "Value">>, <<>>)

IsInterfaceNil(i) ==
    IF i = NilInterface THEN Return(TRUE, Nil)
    ELSE IF i.kind \in {"Ptr", "Map", "Array", "Chan", "Slice"} THEN IsNil(i)
    ELSE Return(FALSE, Nil)

\* Or[any](vals...) from argument i on: the zero value is the nil interface
RECURSIVE Or(_, _)
Or(vals, i) ==
    IF i > Len(vals) THEN Return(NilInterface, Nil)
    ELSE IF vals[i] = NilInterface THEN Or(vals, i + 1)
    ELSE LET n == IsInterfaceNil(vals[i])
         IN IF n.kind = "panic" THEN n
            ELSE IF ~n.val THEN Return(vals[i], Nil)
            ELSE Or(vals, i + 1)

DoIsInterfaceNil(i) ==
    /\ Building
    /\ out' = IsInterfaceNil(i)
    /\ last' = [Call("IsInterfaceNil", Nil, <<>>, NoFrame) EXCEPT !.args = <<i>>]
    /\ UNCHANGED <<err, held, ctx, ja, limit, heap, gs, rt>>

DoOr(vals) ==
    /\ Building
    /\ out' = Or(vals, 1)
    /\ last' = [Call("Or", Nil, <<>>, NoFrame) EXCEPT !.args = vals]
    /\ UNCHANGED <<err, held, ctx, ja, limit, heap, gs, rt>>

NextNil ==
    \/ \E i \in Interfaces : DoIsInterfaceNil(i)
    \/ \E vals \in SeqsUpTo(Interfaces, MaxVals) : DoOr(vals)

SpecNil == InitRetry /\ [][NextNil]_vars

----------------------------------------------------------------------------
(* Vocabulary of the properties *)

\* the attributes of a list whose value is not an empty group
Kept(meta) == SelectSeq(meta, LAMBDA a : a.value # Group(<<>>))
\* keys of an attribute list, and the value its last attribute with key k has
KeysOf(meta) == {meta[i].key : i \in DOMAIN meta}
ValuesOf(meta, k) == {meta[i].value : i \in {j \in DOMAIN meta : meta[j].key = k}}
LastValue(meta, k) ==
    LET is == {i \in DOMAIN meta : meta[i].key = k}
    IN meta[CHOOSE i \in is : \A j \in is : j <= i].value

\* the structured nodes of an error value, found by structure alone
RECURSIVE AttrNodes(_)
AttrNodes(e) ==
    CASE e.t = "nil"   -> {}
      [] e.t = "plain" -> {}
      [] e.t = "fmt"   -> AttrNodes(e.error)
      [] e.t = "attr"  -> {e} \cup AttrNodes(e.error)
      [] e.t = "join"  -> UNION {AttrNodes(e.errs[i]) : i \in DOMAIN e.errs}

\* the flattened map of the current error and of the error passed in
Flat == UnwrapAttr(err).kv
FlatIn == UnwrapAttr(last.in).kv

\* the attributes the walk along first matches (errors.As, then
\* errors.Unwrap of the match) collects from e
ChainKV(e) == UpdateFromChain(e, EmptyKV)

\* the frame callerFunc resolves for a call site of the application
Resolved(site) ==
    callerFunc(1, <<RuntimeFrame("Callers"), site>>)

----------------------------------------------------------------------------
(* C1: flatten after WrapAttr/WrapMeta *)

\* C1 (as claimed): after WrapAttr(e, A) with e # nil, the flattened map
\* maps every key of A to a value A gives it, also when the key occurs
\* deeper in e's chain with another value. (Stated for the application's
\* keys with a value that is not an empty group; the source key is left to
\* C5 and C6.)
C1_HeadWins ==
    (last.op = "WrapMeta" /\ last.in # Nil) =>
        \A k \in KeysOf(Kept(last.meta)) \ {DefaultSourceSlogKey} :
            k \in DOMAIN Flat /\ Flat[k] \in ValuesOf(last.meta, k)

\* C1 (amended): after WrapAttr(e, A) with e # nil, the new head holds A's
\* attributes without the empty groups, in order, before anything else, and
\* every key of those is in the flattened map. When a node on e's chain of
\* first matches carries the key, the value reported is the one that chain
\* gives it (the occurrence farthest from the head wins, not A's). Otherwise
\* it is the value of the last own attribute of the new head with that key.
C1_DeepestWins ==
    (last.op = "WrapMeta" /\ last.in # Nil) =>
        \A k \in KeysOf(Kept(last.meta)) :
            /\ SubSeq(err.attrs, 1, Len(Kept(last.meta))) = Kept(last.meta)
            /\ k \in DOMAIN Flat
            /\ Flat[k] = IF k \in DOMAIN ChainKV(last.in)
                         THEN ChainKV(last.in)[k]
                         ELSE LastValue(err.attrs, k)

\* witness: WrapAttr put a key on the head that a deeper node carries with
\* another value
C1_Witness ==
    /\ last.op = "WrapMeta"
    /\ last.in # Nil
    /\ \E k \in KeysOf(Kept(last.meta)) :
          k \in DOMAIN ChainKV(last.in)
          /\ ChainKV(last.in)[k] # LastValue(last.meta, k)

----------------------------------------------------------------------------
(* C2: flatten after Join(nil, errA, nil, errB) *)

\* the two errors of a call Join(nil, errA, nil, errB)
JoinA == last.args[2]
JoinB == last.args[4]
IsJoinOfTwo ==
    /\ last.op = "Join"
    /\ Len(last.args) = 4
    /\ AttrNodes(JoinA) # {}
    /\ AttrNodes(JoinB) # {}

\* C2 (as claimed): the flattened map of Join(nil, errA, nil, errB) has the
\* keys of errA's map and of errB's map, and a key both carry is reported
\* with errB's value, the later sibling's.
C2_LaterSiblingWins ==
    IsJoinOfTwo =>
        /\ DOMAIN Flat = DOMAIN UnwrapAttr(JoinA).kv \cup DOMAIN UnwrapAttr(JoinB).kv
        /\ \A k \in DOMAIN UnwrapAttr(JoinA).kv \cap DOMAIN UnwrapAttr(JoinB).kv :
              Flat[k] = UnwrapAttr(JoinB).kv[k]

\* C2 (amended): the flattened map of Join(nil, errA, nil, errB) has the keys
\* of errA's map and of errB's map. A key carried by a node on errA's own
\* chain (the nodes errors.As reaches from errA by first matches) is reported
\* with the value that chain gives it, because the chain walk that follows
\* the fold of the children visits the first sibling again; any other key is
\* reported with errB's value if errB carries it, else with errA's.
C2_FirstSiblingWins ==
    IsJoinOfTwo =>
        /\ DOMAIN Flat = DOMAIN UnwrapAttr(JoinA).kv \cup DOMAIN UnwrapAttr(JoinB).kv
        /\ \A k \in DOMAIN Flat :
              Flat[k] =
                  IF k \in DOMAIN ChainKV(JoinA) THEN ChainKV(JoinA)[k]
                  ELSE IF k \in DOMAIN UnwrapAttr(JoinB).kv
                       THEN UnwrapAttr(JoinB).kv[k]
                       ELSE UnwrapAttr(JoinA).kv[k]

\* witness: two structured errors were joined that give an application key
\* different values
C2_Witness ==
    /\ IsJoinOfTwo
    /\ "a" \in DOMAIN UnwrapAttr(JoinA).kv \cap DOMAIN UnwrapAttr(JoinB).kv
    /\ UnwrapAttr(JoinA).kv["a"] # UnwrapAttr(JoinB).kv["a"]
    /\ "a" \in DOMAIN Flat

----------------------------------------------------------------------------
(* C3: wrapping nil *)

WrapOps == {"Wrap", "Wrapf", "WrapMeta", "WrapMetaCtx", "WrapMetaCtxAfter"}

\* C3: Wrap, Wrapf (WrapfWithSkip), WrapMeta/WrapAttr and WrapMetaCtx return
\* nil for a nil error, WrapMetaCtxAfter leaves a nil slot nil, whatever the
\* attributes and the context; no structured node has a nil error inside.
C3_NilStaysNil ==
    /\ (last.op \in WrapOps /\ last.in = Nil) => err = Nil
    /\ \A n \in AttrNodes(err) : n.error # Nil

\* witness: a nil error was wrapped with explicit attributes under a context
\* that carries attributes
C3_Witness ==
    /\ last.op \in {"WrapMetaCtx", "WrapMetaCtxAfter"}
    /\ last.in = Nil
    /\ last.meta # <<>>
    /\ ctx.attrs # <<>>

----------------------------------------------------------------------------
(* C4: completeness of the flattened map *)

\* every key held by some structured node reachable from e
AllKeys(e) == UNION {KeysOf(n.attrs) : n \in AttrNodes(e)}
\* e holds a join directly below a structured node that is itself a member
\* of a join
RECURSIVE NestedJoin(_, _)
NestedJoin(e, inside) ==
    CASE e.t = "nil"   -> FALSE
      [] e.t = "plain" -> FALSE
      [] e.t = "fmt"   -> NestedJoin(e.error, inside)
      [] e.t = "attr"  -> NestedJoin(e.error, inside)
      [] e.t = "join"  -> inside \/ \E i \in DOMAIN e.errs : NestedJoin(e.errs[i], TRUE)

\* C4: the keys of UnwrapAttr(err) are exactly the keys held by the
\* structured nodes reachable from err through single and multi unwraps, at
\* any nesting depth of joins; the map is never nil, and it is empty when no
\* structured node is reachable.
C4_AllKeys ==
    /\ ~UnwrapAttr(err).isNil
    /\ DOMAIN Flat = AllKeys(err)
    /\ AttrNodes(err) = {} => Flat = EmptyKV

\* witness: a join inside a join, where a key is held only by a node that is
\* not on the chain of first matches
C4_Witness ==
    /\ NestedJoin(err, FALSE)
    /\ "b" \in AllKeys(err)
    /\ "b" \notin DOMAIN ChainKV(err)
    /\ "b" \in DOMAIN Flat

----------------------------------------------------------------------------
(* C5: the location attribute *)

\* every attribute held by some structured node of e
AllAttrs(e) == UNION {{n.attrs[i] : i \in DOMAIN n.attrs} : n \in AttrNodes(e)}
\* the structured nodes of e that carry the source key
Carriers(e) == {n \in AttrNodes(e) : DefaultSourceSlogKey \in KeysOf(n.attrs)}

\* C5 (as claimed): after any wrap of a non-nil error built by wraps over a
\* non-structured base, with no application attribute under the source key,
\* exactly one structured node carries the location; a wrap of an error
\* without structured node records the site of that (first) wrap, a later
\* wrap leaves the reported location as it was.
C5_FirstWrapSite ==
    (last.op \in WrapOps /\ last.in # Nil /\ s1 \notin AllAttrs(err)) =>
        /\ Cardinality(Carriers(err)) = 1
        /\ AttrNodes(last.in) = {} =>
              Flat[DefaultSourceSlogKey] = String(SourceValue(Resolved(last.site)))
        /\ AttrNodes(last.in) # {} =>
              Flat[DefaultSourceSlogKey] = FlatIn[DefaultSourceSlogKey]

\* the part of C5 the code keeps: one carrier, never replaced by later wraps
C5_OneCarrier ==
    (last.op \in WrapOps /\ last.in # Nil /\ s1 \notin AllAttrs(err)) =>
        /\ Cardinality(Carriers(err)) = 1
        /\ AttrNodes(last.in) # {} =>
              Flat[DefaultSourceSlogKey] = FlatIn[DefaultSourceSlogKey]
        /\ (AttrNodes(last.in) = {} /\ last.op \in {"Wrap", "Wrapf"}) =>
              Flat[DefaultSourceSlogKey] = String(SourceValue(Resolved(last.site)))

----------------------------------------------------------------------------
(* C6: precedence inside the node WrapMetaCtx creates *)

\* the attributes appendMetaFromCtx reads from the current context
CtxAttrs == appendMetaFromCtx(ctx, <<>>)

\* C6 (as claimed): after WrapMetaCtx(ctx, e, A) on an error whose chain does
\* not carry the key, a key given both explicitly and by the context is
\* reported with the explicit value, and a context attribute under the
\* source key beats the caller location.
C6_ExplicitBeatsCtx ==
    (last.op = "WrapMetaCtx" /\ last.in # Nil) =>
        /\ \A k \in (KeysOf(Kept(last.meta)) \cap KeysOf(Kept(CtxAttrs))) \ DOMAIN FlatIn :
              Flat[k] \in ValuesOf(last.meta, k)
        /\ \A k \in (KeysOf(Kept(CtxAttrs)) \cap {DefaultSourceSlogKey}) \ DOMAIN FlatIn :
              Flat[k] \in ValuesOf(CtxAttrs, k)

\* C6 (amended): after WrapMetaCtx(ctx, e, A) on an error whose chain does not
\* carry the key, the context's value is the one reported for every key the
\* context carries (context > location > explicit): the context beats an
\* explicit attribute with the same key, and the caller location beats an
\* explicit attribute under the source key.
C6_CtxBeatsExplicit ==
    (last.op = "WrapMetaCtx" /\ last.in # Nil) =>
        \A k \in (KeysOf(Kept(last.meta)) \cup KeysOf(Kept(CtxAttrs))) \ DOMAIN FlatIn :
            Flat[k] =
                IF k \in KeysOf(Kept(CtxAttrs)) THEN LastValue(Kept(CtxAttrs), k)
                ELSE IF k = DefaultSourceSlogKey /\ AttrNodes(last.in) = {}
                     THEN err.attrs[Len(Kept(last.meta)) + 1].value
                     ELSE LastValue(Kept(last.meta), k)

\* witness: WrapMetaCtx got a key explicitly that the context carries with
\* another value, on an error whose chain does not carry it
C6_Witness ==
    /\ last.op = "WrapMetaCtx"
    /\ last.in # Nil
    /\ \E k \in (KeysOf(Kept(last.meta)) \cap KeysOf(Kept(CtxAttrs))) \ DOMAIN FlatIn :
          ValuesOf(last.meta, k) \cap ValuesOf(CtxAttrs, k) = {}

----------------------------------------------------------------------------
(* C7: duplicate keys in a node's own attributes *)

NoDupKeys(meta) ==
    \A i, j \in DOMAIN meta : meta[i].key = meta[j].key => i = j
KeySeq(meta) == [i \in DOMAIN meta |-> meta[i].key]
MetaOps == {"WrapMeta", "WrapMetaCtx", "WrapMetaCtxAfter"}
UsedCtxAttrs == IF last.op = "WrapMeta" THEN <<>> ELSE CtxAttrs

\* C7 (as claimed): a node built by WrapMeta, WrapMetaCtx or WrapMetaCtxAfter
\* from an explicit list and a context list that are each free of duplicate
\* keys holds no two own attributes with the same key.
C7_NoDupKeys ==
    (/\ last.op \in MetaOps
     /\ last.in # Nil
     /\ err # last.in
     /\ NoDupKeys(last.meta)
     /\ NoDupKeys(UsedCtxAttrs)) => NoDupKeys(err.attrs)

\* C7 (amended): the node's own attribute keys are exactly the keys of the
\* explicit attributes, then the source key if the wrapped error held no
\* structured node, then the keys of the context's attributes, in that
\* order; only attributes whose value is an empty group are left out, an
\* attribute with a key already present is not. So the own list is free of
\* duplicate keys exactly when that concatenation is.
C7_KeysConcatenated ==
    (last.op \in MetaOps /\ last.in # Nil /\ err # last.in) =>
        KeySeq(err.attrs) =
            KeySeq(Kept(last.meta))
            \o (IF AttrNodes(last.in) = {} THEN <<DefaultSourceSlogKey>> ELSE <<>>)
            \o KeySeq(Kept(UsedCtxAttrs))

\* witness: a node was built whose explicit and context lists are each free
\* of duplicates and share a key
C7_Witness ==
    /\ last.op = "WrapMetaCtx"
    /\ last.in # Nil
    /\ err # last.in
    /\ NoDupKeys(last.meta)
    /\ NoDupKeys(CtxAttrs)
    /\ KeysOf(last.meta) \cap KeysOf(CtxAttrs) # {}
    /\ ~NoDupKeys(err.attrs)

----------------------------------------------------------------------------
(* C8: no redundant wrapper *)

\* C8: WrapMeta with no explicit attributes, and WrapMetaCtx with no explicit
\* attributes under a nil or attribute-less context, applied to an error
\* whose head is a structured node, return that same error value.
C8_PassThrough ==
    (/\ last.in.t = "attr"
     /\ last.meta = <<>>
     /\ \/ last.op = "WrapMeta"
        \/ last.op = "WrapMetaCtx" /\ CtxAttrs = <<>>) => err = last.in

\* witness: WrapMetaCtx was called with no attributes under a context whose
\* carrier holds an empty list, on a structured error
C8_Witness ==
    /\ last.op = "WrapMetaCtx"
    /\ last.in.t = "attr"
    /\ last.meta = <<>>
    /\ ctx.has
    /\ ctx.attrs = <<>>
    /\ err = last.in

----------------------------------------------------------------------------
(* C9: Wrap of a structured error *)

\* C9 (as claimed): Wrap(err) of an error whose head is a structured node
\* has the same message and the same flattened map as err and adds no node.
C9_WrapCollapses ==
    (last.op = "Wrap" /\ last.in.t = "attr") =>
        /\ Error(err) = Error(last.in)
        /\ Flat = FlatIn
        /\ Nodes(err) = Nodes(last.in)

\* C9 (amended): Wrap(err) of an error whose head is a structured node keeps
\* the flattened map, but always allocates one new structured node without
\* own attributes around err, and its message is the caller's package.func
\* followed by err's message.
C9_WrapAddsNode ==
    (last.op = "Wrap" /\ last.in.t = "attr") =>
        /\ Flat = FlatIn
        /\ Nodes(err) = Nodes(last.in) + 1
        /\ err.t = "attr" /\ err.attrs = <<>>
        /\ Unwrap(Unwrap(err)) = last.in
        /\ Error(err) =
              <<last.site.function[Len(last.site.function)]>> \o Error(last.in)

\* witness: Wrap was applied to a structured error that carries attributes
C9_Witness ==
    /\ last.op = "Wrap"
    /\ last.in.t = "attr"
    /\ "a" \in DOMAIN FlatIn
    /\ err # Nil

----------------------------------------------------------------------------
(* C10: JoinAfter *)

\* positions of the non-nil functions of a list, in order
FuncIdx(errFuncs) ==
    SelectSeq([i \in 1..Len(errFuncs) |-> i], LAMBDA i : ~errFuncs[i].isNil)
\* what the functions at the given positions return, in order
Returned(errFuncs, idx) == [j \in 1..Len(idx) |-> errFuncs[idx[j]].ret]

\* C10: JoinAfter calls every non-nil cleanup function exactly once, in
\* argument order, whether or not an earlier one returned an error. The
\* error left in the slot joins every non-nil error returned, in order,
\* followed by the error the slot held before (nil members discarded, nil if
\* none is left), and its flattened map has every key of every returned
\* error and of the previous error.
C10_AllCleanupsRun ==
    /\ ja.pc = "run" =>
          ja.calls = FuncIdx(SubSeq(ja.errFuncs, 1, ja.i - 1))
    /\ ja.pc = "done" =>
          LET want == NonNil(Append(Returned(ja.errFuncs, FuncIdx(ja.errFuncs)),
                                    ja.before))
          IN /\ ja.calls = FuncIdx(ja.errFuncs)
             /\ IF want = <<>> THEN err = Nil
                ELSE /\ err.t = "attr"
                     /\ err.attrs = <<>>
                     /\ err.error.t = "join"
                     /\ err.error.errs = want
             /\ \A j \in DOMAIN want : DOMAIN UnwrapAttr(want[j]).kv \subseteq DOMAIN Flat

\* witness: the first cleanup returned an error, the second was still called
\* and returned a structured error, and the slot held a structured error
C10_Witness ==
    /\ ja.pc = "done"
    /\ Len(ja.errFuncs) = 2
    /\ ja.calls = <<1, 2>>
    /\ ja.errFuncs[1].ret.t = "plain"
    /\ ja.errFuncs[2].ret.t = "attr"
    /\ ja.before.t = "attr"
    /\ Len(err.error.errs) = 3

----------------------------------------------------------------------------
(* C11: JoinAfter when every cleanup returns nil *)

\* C11: JoinAfter only updates the slot if one of the errFuncs returned an
\* error: when every cleanup function returned nil (or none was given), the
\* slot holds after the call exactly the error value it held before, nil or
\* not.
C11_SlotUntouched ==
    (ja.pc = "done" /\ \A j \in DOMAIN ja.errs : ja.errs[j] = Nil) =>
        err = ja.before

----------------------------------------------------------------------------
(* C12: Join and nil *)

\* the members of a list of errors that are not nil, in their order
Members(errs) ==
    LET idx == SelectSeq([i \in 1..Len(errs) |-> i], LAMBDA i : errs[i].t # "nil")
    IN [j \in 1..Len(idx) |-> errs[idx[j]]]

\* C12: Join(errs...) returns nil if and only if every member is nil (the
\* empty list included); otherwise the children of the result are exactly
\* the non-nil members, in their original order. Consequently JoinAfter
\* leaves nil in the slot exactly when the slot was nil and every cleanup
\* function returned nil.
C12_JoinNilIffAllNil ==
    /\ last.op = "Join" =>
          /\ err = Nil <=> \A i \in DOMAIN last.args : last.args[i] = Nil
          /\ err # Nil =>
                /\ err.t = "attr"
                /\ err.error.t = "join"
                /\ err.error.errs = Members(last.args)
    /\ ja.pc = "done" =>
          (err = Nil <=> /\ ja.before = Nil
                         /\ \A j \in DOMAIN ja.errs : ja.errs[j] = Nil)

\* witness: Join over nil and two non-nil members kept both, in order
C12_Witness ==
    /\ last.op = "Join"
    /\ Len(last.args) = 4
    /\ last.args[1] = Nil
    /\ last.args[2] # Nil
    /\ last.args[4] # Nil
    /\ last.args[2] # last.args[4]
    /\ err.error.errs = <<last.args[2], last.args[4]>>

----------------------------------------------------------------------------
(* C13: repeated WrapMetaCtxAfter on one slot *)

\* C13 as stated: after WrapMetaCtxAfter on a non-nil slot, the flattened
\* map has each key of the context with the context's value, and every
\* explicit attribute of the call is present (its key with a value the call
\* gave it). The location key is left aside.
C13_CtxValueExplicitPresent ==
    (last.op = "WrapMetaCtxAfter" /\ last.in # Nil) =>
        /\ \A k \in KeysOf(Kept(CtxAttrs)) \ {DefaultSourceSlogKey} :
              /\ k \in DOMAIN Flat
              /\ Flat[k] = LastValue(Kept(CtxAttrs), k)
        /\ \A k \in KeysOf(Kept(last.meta)) \ {DefaultSourceSlogKey} :
              /\ k \in DOMAIN Flat
              /\ Flat[k] \in ValuesOf(last.meta, k)

\* C13, amended: each call of WrapMetaCtxAfter on a non-nil slot leaves
\* every key the slot's chain already carried with the value it had, adds
\* every context key not yet carried with the context's value, and adds
\* every explicit key that neither the chain nor the context carries with
\* its explicit value; every explicit key is a key of the map. So repeated
\* calls with the same context report each context key once, and with the
\* context's value unless the error first in the slot carried the key.
C13_CtxKeysOnce ==
    (last.op = "WrapMetaCtxAfter" /\ last.in # Nil) =>
        LET C == Kept(CtxAttrs)
            A == Kept(last.meta)
            chain == ChainKV(last.in)
        IN /\ \A k \in DOMAIN chain : k \in DOMAIN Flat /\ Flat[k] = chain[k]
           /\ \A k \in KeysOf(C) \ DOMAIN chain :
                 k \in DOMAIN Flat /\ Flat[k] = LastValue(C, k)
           /\ \A k \in KeysOf(A) \ (DOMAIN chain \cup KeysOf(C)
                                        \cup {DefaultSourceSlogKey}) :
                 k \in DOMAIN Flat /\ Flat[k] = LastValue(A, k)
           /\ KeysOf(A) \subseteq DOMAIN Flat

\* witness: a second call on the slot under the same context attributes:
\* both nodes carry the context's attribute, the map reports it once
C13_Witness ==
    /\ last.op = "WrapMetaCtxAfter"
    /\ last.in.t = "attr"
    /\ err.t = "attr"
    /\ err.error = last.in
    /\ CtxAttrs = <<a1>>
    /\ \A n \in AttrNodes(err) : \E i \in DOMAIN n.attrs : n.attrs[i] = a1
    /\ Cardinality(AttrNodes(err)) = 2
    /\ Flat["a"] = a1.value
    /\ KeysOf(last.meta) \subseteq DOMAIN Flat
    /\ last.meta # <<>>

----------------------------------------------------------------------------
(* C14: nil slot pointer *)

\* C14: WrapMetaCtxAfter and JoinAfter called with a nil slot pointer abort
\* at once with a panic of their own: no cleanup function has been called,
\* the caller's error is as it was, and the call does not return normally.
\* No call with a slot pointer panics.
C14_NilPtrPanics ==
    /\ (last.op \in {"WrapMetaCtxAfter", "JoinAfter"} /\ last.in = NilPtr) =>
          /\ out.kind = "panic"
          /\ out.msg = <<last.op, MustPoint>>
          /\ out.calls = <<>>
          /\ ja = IdleJA
    /\ out.kind = "panic" => last.in = NilPtr

\* witness: JoinAfter(nil, f) with a cleanup function that was not called,
\* while the function was failing with an error
C14_Witness ==
    /\ last.op = "JoinAfter"
    /\ last.in = NilPtr
    /\ \E i \in DOMAIN last.args : ~last.args[i].isNil
    /\ out.kind = "panic"
    /\ out.calls = <<>>
    /\ err # Nil

----------------------------------------------------------------------------
(* C15: Get *)

\* the Go type of the value a slog.Value stores, "nil" if it stores none
StoredType(value) ==
    CASE value.kind = "String" -> "string"
      [] value.kind = "Int64"  -> "int64"
      [] value.kind = "Group"  -> "[]slog.Attr"
      [] value.kind = "Any"    -> value.v.type
\* the stored value is of type T (for an interface type: implements it)
HasType(value, T) ==
    \/ StoredType(value) = T
    \/ T = "any" /\ StoredType(value) # "nil"
    \/ T = "error" /\ StoredType(value) = "*errors.errorString"

\* C15: Get[T](meta, key) never panics. It returns a non-nil error and the
\* zero value of T when meta is nil, when the key is absent, or when the
\* stored value's type is not T; it returns the stored value and a nil
\* error exactly when the key is present with a value of type T.
C15_GetTotal ==
    last.op = "Get" =>
        LET meta == last.args[1]
            key == last.args[2]
            T == last.args[3]
            typed == /\ ~meta.isNil
                     /\ key \in DOMAIN meta.kv
                     /\ HasType(meta.kv[key], T)
        IN /\ out.kind = "return"
           /\ IF typed
              THEN /\ out.err = Nil
                   /\ out.val.type = StoredType(meta.kv[key])
                   /\ IF meta.kv[key].kind = "Any"
                      THEN out.val = meta.kv[key].v
                      ELSE out.val.v = meta.kv[key].v
              ELSE /\ out.err # Nil
                   /\ out.val = Zero(T)

\* witness: a key holding a string, asked for as int64, gave the zero value
\* and an error, on the map of a two-node chain
C15_Witness ==
    /\ last.op = "Get"
    /\ last.args[2] = "a"
    /\ last.args[3] = "int64"
    /\ ~last.args[1].isNil
    /\ "a" \in DOMAIN last.args[1].kv
    /\ out.kind = "return"
    /\ out.err # Nil
    /\ out.val = Zero("int64")
    /\ Cardinality(AttrNodes(err)) = 2

----------------------------------------------------------------------------
(* C16: Into *)

\* every error value of a tree, the tree itself first, then what it wraps,
\* the members of a join from the first to the last (depth-first, pre-order)
RECURSIVE Preorder(_)
RECURSIVE PreorderAll(_, _)
PreorderAll(errs, i) ==
    IF i > Len(errs) THEN <<>> ELSE Preorder(errs[i]) \o PreorderAll(errs, i + 1)
Preorder(e) ==
    CASE e.t = "nil"   -> <<>>
      [] e.t = "plain" -> <<e>>
      [] e.t = "fmt"   -> <<e>> \o Preorder(e.error)
      [] e.t = "attr"  -> <<e>> \o Preorder(e.error)
      [] e.t = "join"  -> <<e>> \o PreorderAll(e.errs, 1)
\* the error values of type T in the tree, in that order
OfType(e, T) == SelectSeq(Preorder(e), LAMBDA x : x.t = T)
\* the errors the caller's own code made (not a wrapper of this package or
\* of the standard library)
Originals(e) == {x \in {Preorder(e)[i] : i \in DOMAIN Preorder(e)} : x.t = "plain"}

\* C16 as stated: for an original error of type T, Into[T] applied after any
\* number of Wrap/Wrapf/WrapAttr layers, or after placing it as a child of
\* Join, returns found = true and the original value.
C16_FindsOriginal ==
    (last.op = "Into" /\ last.args = <<"plain">>) =>
        \A o \in Originals(last.in) : out.ok /\ out.val = o

\* C16, amended: Into[T] returns found = true exactly when the tree holds
\* an error of type T, under any number of wrapping layers and joins, and
\* then it returns the first such error in depth-first pre-order: the
\* original itself when no wrapping layer and no earlier member of a join
\* is of type T.
C16_FindsFirst ==
    last.op = "Into" =>
        LET all == OfType(last.in, last.args[1])
        IN /\ out.ok <=> all # <<>>
           /\ out.ok => out.val = all[1]
           /\ ~out.ok => out.val = Nil
           /\ Len(all) = 1 => out.val = all[1]

\* witness: two errors of the caller's type joined under wrapping layers;
\* the first one was returned
C16_Witness ==
    /\ last.op = "Into"
    /\ last.args = <<"plain">>
    /\ Len(OfType(err, "plain")) = 2
    /\ OfType(err, "plain")[1] # OfType(err, "plain")[2]
    /\ Len(OfType(err, "join")) = 1
    /\ Len(OfType(err, "attr")) >= 2
    /\ out.ok
    /\ out.val = OfType(err, "plain")[1]

----------------------------------------------------------------------------
(* C17: LogValue puts the message first and the source last *)

\* C17: in the group LogValue returns, the message attribute is the first
\* element and the source attribute the last one (no other element has the
\* source key), whether or not a sort function is configured and whatever
\* attributes the chain carries and in whatever order the map is visited.
C17_MsgFirstSourceLast ==
    last.op = "LogValue" =>
        /\ out.kind = "return"
        /\ LET g == out.val.v
           IN /\ Len(g) >= 2
              /\ g[1] = Attr(DefaultMsgSlogKey, String(Error(last.in)))
              /\ g[Len(g)].key = DefaultSourceSlogKey
              /\ DefaultSourceSlogKey \in DOMAIN Flat => g[Len(g)].value = Flat[DefaultSourceSlogKey]
              /\ \A i \in 2..(Len(g) - 1) : g[i].key # DefaultSourceSlogKey
              /\ {g[i].key : i \in 2..(Len(g) - 1)} = DOMAIN Flat \ {DefaultSourceSlogKey}

\* witness: a sort function is configured, the map was visited in an order
\* that is not sorted, and the chain carries keys that sort before the
\* message key and an attribute keyed like the message
C17_Witness ==
    /\ last.op = "LogValue"
    /\ last.args[2] = CompareKeys
    /\ out.kind = "return"
    /\ Len(out.val.v) = 5
    /\ \E i, j \in DOMAIN last.args[1] :
          i < j /\ last.args[1][i] = "b" /\ last.args[1][j] = "a"
    /\ out.val.v[2].key = "a"
    /\ out.val.v[4].key = DefaultMsgSlogKey

----------------------------------------------------------------------------
(* C18: sorted output does not depend on insertion order *)

\* the two errors logged carry the same set of key/value attributes (the
\* location among them) and have the same message
SameAttrSet == AllAttrs(held) = AllAttrs(err) /\ Error(held) = Error(err)
\* no key of the set has two different values
OneValuePerKey(attrs) == \A x, y \in attrs : x.key = y.key => x.value = y.value

----------------------------------------------------------------------------
(* C19: default and verbose rendering *)

\* the text holds the tokens of sub next to each other
Contains(text, sub) ==
    \E i \in 0..(Len(text) - Len(sub)) : SubSeq(text, i + 1, i + Len(sub)) = sub
Verbose == last.args = <<"v", TRUE>>
\* the attributes of the structured nodes, the location attributes aside
AppAttrs(e) == {a \in AllAttrs(e) : a.key # DefaultSourceSlogKey}

\* C19 as stated: default rendering (%v, %s, Sprint) yields only the
\* message, with no attribute; verbose rendering (%+v) contains the message
\* plus every attribute of every structured node of the whole chain, the
\* nodes below a plain stdlib wrapper and inside joined children included.
C19_VerboseHasEveryAttr ==
    last.op = "Format" =>
        IF Verbose
        THEN /\ Contains(out.val, Error(last.in))
             /\ \A a \in AppAttrs(last.in) : Contains(out.val, AttrString(a))
        ELSE out.val = Error(last.in)

\* C19, amended: default rendering yields only the message; verbose
\* rendering contains the message plus, for every key of every structured
\* node of the whole chain (below a stdlib wrapper and inside joined
\* children included), one attribute: the key with the value the flattened
\* map holds for it. So every attribute whose key has one value in the chain
\* is shown, and of the attributes sharing a key one is.
C19_VerboseHasEveryKey ==
    last.op = "Format" =>
        IF Verbose
        THEN /\ Contains(out.val, <<DefaultMsgSlogKey, "=">> \o Error(last.in))
             /\ \A k \in AllKeys(last.in) :
                   /\ k \in DOMAIN Flat
                   /\ Contains(out.val, AttrString(Attr(k, Flat[k])))
             /\ \A a \in AllAttrs(last.in) :
                   (\A b \in AllAttrs(last.in) : b.key = a.key => b = a) =>
                       Contains(out.val, AttrString(a))
        ELSE /\ out.val = Error(last.in)
             /\ \A a \in AllAttrs(last.in) : ~Contains(out.val, AttrString(a))

\* witness: %+v of a join whose first child is a stdlib wrapper around a
\* structured node; that node's attributes are in the text
C19_Witness ==
    /\ last.op = "Format"
    /\ Verbose
    /\ err.error.t = "join"
    /\ Len(err.error.errs) = 2
    /\ err.error.errs[1].t = "fmt"
    /\ err.error.errs[1].error.t = "attr"
    /\ Contains(out.val, AttrString(b1))
    /\ Contains(out.val, AttrString(a2))
    /\ b1 \in AllAttrs(err.error.errs[1].error)

----------------------------------------------------------------------------
(* C20: concurrent derivation from one parent context *)

\* the attributes a context stores
Stored(c) == IF c.has THEN Elems(heap, c.slice) ELSE <<>>
Done(g) == gs.run[g].pc = "done"

\* C20: AddMetaToCtx never modifies the parent context or its stored
\* attribute list. When two goroutines derive contexts from the same parent
\* in any interleaving, the parent still holds only its original attributes
\* (the cells beyond its length untouched), each derived context holds
\* exactly its own attributes followed by the parent's, now and after every
\* later step of the other goroutine, and neither derived context contains
\* an attribute of the other.
C20_ParentUntouched ==
    /\ gs.parent = [has |-> TRUE, slice |-> Slice(1, Len(ParentAttrs))]
    /\ Stored(gs.parent) = ctx.attrs
    /\ \A i \in (Len(ParentAttrs) + 1)..Len(heap[1]) : heap[1][i] = ZeroAttr
    /\ \A g \in Goroutines : Done(g) =>
          /\ Stored(gs.run[g].derived) = gs.run[g].own \o ctx.attrs
          /\ \A h \in Goroutines \ {g} : \A i \in DOMAIN gs.run[h].own :
                \A j \in DOMAIN Stored(gs.run[g].derived) :
                    Stored(gs.run[g].derived)[j] # gs.run[h].own[i]

\* witness: both goroutines are done; the parent's slice had spare capacity,
\* one goroutine appended in place into its own argument slice and the
\* other into a new array
C20_Witness ==
    /\ \A g \in Goroutines : Done(g)
    /\ Cap(heap, gs.parent.slice) > gs.parent.slice.len
    /\ gs.run[1].derived.slice.arr = gs.run[1].meta.arr
    /\ gs.run[2].derived.slice.arr # gs.run[2].meta.arr
    /\ Stored(gs.run[1].derived) = <<a1, a2>> \o ParentAttrs
    /\ Stored(gs.run[2].derived) = <<b1>> \o ParentAttrs

----------------------------------------------------------------------------
(* C21: the same key attached to a context twice *)

\* positions of the attachments that carry key k
AttachedWith(k) == {i \in DOMAIN Attached : k \in KeysOf(Attached[i])}
Newest(k) == CHOOSE i \in AttachedWith(k) : \A j \in AttachedWith(k) : j <= i
Oldest(k) == CHOOSE i \in AttachedWith(k) : \A j \in AttachedWith(k) : i <= j
\* the error was wrapped with the context, and neither it nor the explicit
\* attributes carried the key
WrappedWithCtx(k) ==
    /\ last.op \in {"WrapMetaCtx", "WrapMetaCtxAfter"}
    /\ last.in # Nil
    /\ k \notin DOMAIN FlatIn
    /\ k \notin KeysOf(last.meta)

----------------------------------------------------------------------------
(* C22: the calls WithMaxAttempts makes before it gives up *)

\* calls of fn in a row without a success, the one in progress included
InARow == rt.fails + (IF rt.pc = "fn" THEN 1 ELSE 0)

\* C22: with maxAttempts = N > 0, fn is never invoked more than N times in a
\* row without an intervening success.
C22_AtMostN ==
    (rt.pc # "none" /\ rt.maxAttempts > 0) => InARow <= rt.maxAttempts

----------------------------------------------------------------------------
(* C23: the wait before each call of fn *)

\* C23: in WithMaxAttempts and WithBackoff the first call of fn follows a
\* timer of no delay, and every later call follows a timer reset to delay(0)
\* when the preceding call returned true and to delay(k) when it returned
\* false, k being the failed calls in a row since the last success.
C23_WaitBeforeCall ==
    (rt.pc \in {"call", "fn"} /\ rt.f = "WithMaxAttempts") =>
        LET first == IF rt.pc = "call" THEN rt.calls = 0 ELSE rt.calls = 1
        IN IF first
           THEN rt.waited = <<"NewTimer", 0>> /\ NewTimer(0).d = 0
           ELSE /\ rt.waited = <<"delay", IF rt.prev THEN 0 ELSE rt.fails>>
                /\ rt.prev => rt.fails = 0

\* witness: the last call explored follows two failed calls in a row, the
\* loop having waited delay(2)
C23_Witness ==
    /\ rt.pc = "fn"
    /\ rt.f = "WithMaxAttempts"
    /\ rt.calls = MaxCalls
    /\ ~rt.prev
    /\ rt.fails = 2
    /\ rt.waited = <<"delay", 2>>

----------------------------------------------------------------------------
(* C30: the loops once the context is done *)

\* C30: once the context is done, UntilDone and WithMaxAttempts start at most
\* one further call of fn, are back at the top of the loop or have returned
\* once that call has returned, and an iteration that began with the context
\* done calls nothing.
C30_OneLateCall ==
    rt.pc # "none" =>
        /\ rt.late <= 1
        /\ (rt.late = 1 => rt.pc \in {"fn", "select", "returned"})
        /\ (rt.began => rt.pc = "returned")

\* witness: the context was done when a call of fn started after earlier
\* calls, and the loop has returned
C30_Witness ==
    /\ rt.pc = "returned"
    /\ rt.late = 1
    /\ rt.calls > 1
    /\ rt.began

----------------------------------------------------------------------------
(* C24: attaching attributes and the message *)

\* C24: for a non-nil error, WrapMeta/WrapAttr, WrapMetaCtx and
\* WrapMetaCtxAfter return an error with the message of the error passed in,
\* whatever the attributes and the context; Wrap and Wrapf change the message,
\* to the caller's name, the format and the message of the error passed in.
C24_MessageKept ==
    /\ (last.op \in {"WrapMeta", "WrapMetaCtx", "WrapMetaCtxAfter"} /\ last.in # Nil) =>
          Error(err) = Error(last.in)
    /\ (last.op = "Wrap" /\ last.in # Nil) =>
          /\ Error(err) # Error(last.in)
          /\ Error(err) =
                <<last.site.function[Len(last.site.function)]>> \o Error(last.in)
    /\ (last.op = "Wrapf" /\ last.in # Nil) =>
          /\ Error(err) # Error(last.in)
          /\ \E format \in Formats :
                Error(err) = <<last.site.function[Len(last.site.function)]>>
                                \o format \o Error(last.in)

\* witness: attributes were attached, explicitly and from the context, to an
\* error that Wrapf had given a message
C24_Witness ==
    /\ last.op = "WrapMetaCtx"
    /\ last.meta # <<>>
    /\ ctx.attrs # <<>>
    /\ last.in.t = "attr"
    /\ Len(Error(last.in)) > 2
    /\ err # last.in
    /\ Error(err) = Error(last.in)

----------------------------------------------------------------------------
(* C25: structured nodes after construction *)

\* the structured nodes in memory
NodeRefs(h) == {r \in DOMAIN h : h[r].t = "attr"}

\* C25: no operation (wrapping an error again, joining it, flattening it,
\* logging it, WrapMetaCtxAfter on a variable that refers to it) changes the
\* message, the own attributes or the flattened map of a structured node that
\* exists already, whoever refers to it.
C25_NodesImmutable ==
    [][\A r \in NodeRefs(heap) :
          /\ r \in NodeRefs(heap')
          /\ Error(ValueOf(heap', r)) = Error(ValueOf(heap, r))
          /\ heap'[r].attrs = heap[r].attrs
          /\ UnwrapAttr(ValueOf(heap', r)) = UnwrapAttr(ValueOf(heap, r))]_vars

\* witness: WrapMetaCtxAfter has added attributes to a variable that referred
\* to the structured node another variable still refers to
C25_Witness ==
    /\ last.op = "WrapMetaCtxAfter"
    /\ last.meta # <<>>
    /\ last.in = held
    /\ held # NilRef
    /\ heap[held].t = "attr"
    /\ err # held
    /\ heap[err].error = held
    /\ "a" \notin DOMAIN UnwrapAttr(ValueOf(heap, held)).kv
    /\ "a" \in DOMAIN UnwrapAttr(ValueOf(heap, err)).kv

----------------------------------------------------------------------------
(* C26: IsInterfaceNil *)

\* C26: IsInterfaceNil returns true when the interface or the value it
\* holds is nil, and returns false, without a panic, for every value whose
\* type cannot be nil.
C26_NilOrFalse ==
    last.op = "IsInterfaceNil" =>
        /\ out.kind = "return"
        /\ out.val = last.args[1].isNil

----------------------------------------------------------------------------
(* C27: LogValue under every configuration *)

\* no attribute comes after one that sorts behind it
InOrder(attrs) ==
    \A i \in 1..Len(attrs) : \A j \in (i + 1)..Len(attrs) : ~Less(attrs[j], attrs[i])
\* the attributes of a group between the message, if any, and the source
Between(g, msgKey) ==
    SubSeq(g, IF msgKey # "" THEN 2 ELSE 1, Len(g) - 1)

\* C27: LogValue returns normally under every configuration and for every
\* error; when a sort function is set, the attributes other than the source
\* (and the message, when it is included) are in sorted order, the first one
\* included, and an error without attributes gives a group as well.
C27_NoPanicSorted ==
    (last.op = "LogValue" /\ Len(last.args) = 3) =>
        /\ out.kind = "return"
        /\ out.val.kind = "Group"
        /\ last.args[2] # NilSortFunc =>
              InOrder(Between(out.val.v, last.args[3]))

----------------------------------------------------------------------------
(* C28: the location key of every error the package returns *)

\* C28: with a location key configured, every non-nil error returned by New,
\* Wrap, Wrapf, WrapMeta/WrapAttr or WrapMetaCtx has the location key in its
\* flattened map, whatever error was passed in, a Join of errors from outside
\* the package included.
C28_HasLocation ==
    (/\ DefaultSourceSlogKey # ""
     /\ last.op \in {"New", "Wrap", "Wrapf", "WrapMeta", "WrapMetaCtx"}
     /\ err # Nil) => DefaultSourceSlogKey \in DOMAIN Flat

----------------------------------------------------------------------------
(* C29: JoinAfter tests errPtr before the cleanups *)

\* C29: JoinAfter called with errPtr = nil panics before it has called a
\* single cleanup function, whatever functions it was given; only a call
\* with a slot pointer runs them, and when such a call is over it has run
\* every non-nil one.
C29_CheckBeforeCleanups ==
    last.op = "JoinAfter" =>
        IF last.in = NilPtr
        THEN /\ out.kind = "panic"
             /\ Len(out.calls) = 0
             /\ ja.pc # "run"
        ELSE /\ out.kind # "panic"
             /\ ja.pc = "done" =>
                   Len(ja.calls) = Cardinality({i \in DOMAIN ja.errFuncs : ~ja.errFuncs[i].isNil})

\* witness: JoinAfter(nil, close) in a function that had not failed: close
\* would have returned an error and was not called
C29_Witness ==
    /\ last.op = "JoinAfter"
    /\ last.in = NilPtr
    /\ last.args = <<Func(Plain(<<"close">>))>>
    /\ err = Nil
    /\ out.kind = "panic"
    /\ out.calls = <<>>

====
